---- MODULE Spec2Model ----
(***************************************************************************)
(* A model of the core of the node: the accounting delta engine, the       *)
(* layered UTXO cache, the hierarchical transaction verifier and its       *)
(* flush, and the mempool's consensus verification of a candidate.         *)
(*                                                                         *)
(* The module holds one specification per subsystem; every specification   *)
(* leaves the variables of the other subsystems at their initial value.    *)
(***************************************************************************)
EXTENDS Integers, Sequences, FiniteSets, TLC

VARIABLES
    \* ---- accounting delta engine (accounting/src/delta) ----
    origin_data,    \* the cell before any delta: None or Some(v)
    chain,          \* the deltas constructed so far, in order
    data,           \* the cell after the deltas applied one by one so far
    pending,        \* collections holding the deltas not applied yet
    undo,           \* DataDeltaUndo returned by the last merge_delta_data_element
    lastMerge,      \* operands and outcome of the last merge of two deltas
    failed,         \* an unwrap() of the run hit an Err
    \* ---- layered UTXO cache (utxo) ----
    utxo_storage,   \* the storage backend's utxo map: OutPoint -> Option<Utxo>
    utxo_layers,    \* the stack of cache layers over it, the newest last
    utxo_ops,       \* operations done in this run
    utxo_last,      \* the last operation on the cache and its result
    \* ---- hierarchical transaction verifier (chainstate/tx-verifier) ----
    ver_store,      \* the store under the verifiers, one map per sub-cache
    ver_layers,     \* the stack of verifiers over it, the newest last
    ver_ops,        \* operations done in this run
    ver_last,       \* the last flush: its operands and the error it returned
    \* ---- blocks connected to and disconnected from the utxo db ----
    blk_storage,    \* the db's utxo set: OutPoint -> Option<Utxo>
    blk_undo,       \* the db's undo data: block height -> Option<BlockUndo>
    blk_chain,      \* the blocks connected, with the utxos secured before each
    blk_last,       \* the last connect or disconnect and its result
    \* ---- the mempool verifying a candidate transaction (mempool/src/pool) ----
    adm_storage,    \* the chainstate's utxo set
    adm_tip,        \* the chainstate's best block
    adm_verifier,   \* self.tx_verifier: the mempool's overlay over the chainstate
    adm_pc,         \* where verify_transaction stands
    adm_job,        \* the candidate, the attempts made, the tip read, the child
    adm_result,     \* what the last verify_transaction returned
    \* ---- the mempool admitting, expiring and evicting (mempool/src/pool) ----
    pool_chain,     \* the chainstate: its best block and its utxo set
    pool_mempool,   \* the Mempool: store, tx_verifier, rolling_fee_rate
    pool_clock,     \* the time self.clock.get_time() returns
    pool_last,      \* the last call on the mempool and what it returned
    \* ---- the chainstate processing blocks (chainstate/src/detail) ----
    chs_best,       \* the best block: its height and its timestamp
    chs_locked,     \* the LockThenTransfer output the chain holds, if any
    chs_last,       \* the last process_block: the block and the result
    \* ---- memory usage tracking (mempool/src/pool/store/mem_usage.rs) ----
    trk_usage,      \* Tracker::current_usage
    trk_objects,    \* the Tracked objects alive and the Guards borrowing them
    trk_last,       \* the last call on the tracker
    \* ---- the wallet's key store (wallet/storage/src/internal) ----
    wlt_db,         \* the backend: DBRootKeys and EncryptionKeyKdfChallenge
    wlt_state,      \* Store::encryption_state
    wlt_user,       \* what the caller wrote and the password it chose
    wlt_last,       \* the last call on the store and what it returned
    \* ---- the block sync manager and its peer tasks (p2p/src/sync) ----
    sync_ibd,       \* is_initial_block_download, shared with the peer tasks
    sync_peers,     \* BlockSyncManager::peers: PeerId -> the channel's sender
    sync_tasks,     \* the peer tasks running, by the channel each receives on
    sync_env,       \* the environment: channels created, events sent, peers gone
    sync_sent,      \* TransactionRequest messages sent, as <<peer, tx>>
    sync_scores,    \* AdjustPeerScore events sent to the peer manager
    sync_running,   \* BlockSyncManager::run has not returned
    sync_last       \* the last event handled and what the handler returned

deltaVars == <<origin_data, chain, data, pending, undo, lastMerge, failed>>

utxoVars == <<utxo_storage, utxo_layers, utxo_ops, utxo_last>>

verVars == <<ver_store, ver_layers, ver_ops, ver_last>>

blkVars == <<blk_storage, blk_undo, blk_chain, blk_last>>

admVars == <<adm_storage, adm_tip, adm_verifier, adm_pc, adm_job, adm_result>>

poolVars == <<pool_chain, pool_mempool, pool_clock, pool_last>>

chsVars == <<chs_best, chs_locked, chs_last>>

trkVars == <<trk_usage, trk_objects, trk_last>>

wltVars == <<wlt_db, wlt_state, wlt_user, wlt_last>>

syncVars == <<sync_ibd, sync_peers, sync_tasks, sync_env, sync_sent,
              sync_scores, sync_running, sync_last>>

vars == <<deltaVars, utxoVars, verVars, blkVars, admVars, poolVars, chsVars,
          trkVars, wltVars, syncVars>>

\* the variables of the subsystems a specification leaves alone
otherThanDelta == <<utxoVars, verVars, blkVars, admVars, poolVars, chsVars,
        trkVars, wltVars, syncVars>>
otherThanUtxo == <<deltaVars, verVars, blkVars, admVars, poolVars, chsVars,
        trkVars, wltVars, syncVars>>
otherThanVer == <<deltaVars, utxoVars, blkVars, admVars, poolVars, chsVars,
        trkVars, wltVars, syncVars>>
otherThanBlk == <<deltaVars, utxoVars, verVars, admVars, poolVars, chsVars,
        trkVars, wltVars, syncVars>>
otherThanAdm == <<deltaVars, utxoVars, verVars, blkVars, poolVars, chsVars,
        trkVars, wltVars, syncVars>>
otherThanPool == <<deltaVars, utxoVars, verVars, blkVars, admVars, chsVars,
        trkVars, wltVars, syncVars>>
otherThanChs == <<deltaVars, utxoVars, verVars, blkVars, admVars, poolVars,
        trkVars, wltVars, syncVars>>
otherThanTrk == <<deltaVars, utxoVars, verVars, blkVars, admVars, poolVars,
        chsVars, wltVars, syncVars>>
otherThanWlt == <<deltaVars, utxoVars, verVars, blkVars, admVars, poolVars,
        chsVars, trkVars, syncVars>>
otherThanSync == <<deltaVars, utxoVars, verVars, blkVars, admVars, poolVars,
        chsVars, trkVars, wltVars>>

----------------------------------------------------------------------------
(* Bounds *)

\* values a cell can hold: Some(1) .. Some(NumVals)
NumVals == 4
\* longest chain of deltas constructed in one run
MaxChain == 3
\* outpoints 1 .. NumOutPoints
NumOutPoints == 2
\* utxos (outputs) 1 .. NumUtxos
NumUtxos == 2
\* cache layers stacked over the storage backend
MaxLayers == 2
\* cache operations in one run
MaxUtxoOps == 3
NumKeys == 1
NumPayloads == 2
MaxVerifiers == 3
MaxVerifierOps == 3
MaxInputs == 2
MaxBlockTxs == 2
MaxBlocks == 1
MaxTipMoves == 2
\* the turns of verify_transaction's loop; the value is set outside the
\* sources modelled here, and the loop is the same for every value
MAX_TX_ADDITION_ATTEMPTS == 2
\* outpoints 1 .. NumConfirmed are outputs of confirmed transactions
NumConfirmed == 3
\* candidate transactions 1 .. NumTxs
NumTxs == 6
\* the clock runs from 0 to MaxTime
MaxTime == 2
\* blocks the chainstate connects in one run
MaxPoolBlocks == 2
\* the mempool's limits and fee parameters; their values are set outside the
\* sources modelled here (crate::config and pool::feerate)
MAX_MEMPOOL_SIZE_BYTES == 3
DEFAULT_MEMPOOL_EXPIRY == 1
RELAY_FEE_PER_BYTE == 1
INCREMENTAL_RELAY_FEE_RATE == 2
INCREMENTAL_RELAY_THRESHOLD == 1
ROLLING_FEE_BASE_HALFLIFE == 2
ROLLING_FEE_DECAY_INTERVAL == 0
ENABLE_RBF == FALSE
MAX_BIP125_REPLACEMENT_CANDIDATES == 2
\* blocks the chainstate accepts over the genesis in one run
MaxChainBlocks == 3
\* block timestamps run from 0, the genesis', to MaxBlockTime
MaxBlockTime == 2
\* stake pools 1 .. NumPools
NumPools == 2

----------------------------------------------------------------------------
(* Option<T>: None is the empty sequence, Some(v) is <<v>> *)

None == <<>>
Some(v) == <<v>>
Data == {None} \cup {Some(v) : v \in 1..NumVals}

----------------------------------------------------------------------------
(* Accounting delta engine *)

\* the key every collection of the delta tests uses
TestKey == 1

\* DataDelta::new(before, after)
DataDelta_new(before, after) == [before |-> before, after |-> after]

DataDelta == {DataDelta_new(b, a) : b \in Data, a \in Data}

\* the inverse of a delta: before and after swapped
invert(delta) == DataDelta_new(delta.after, delta.before)

\* a merge rule that accepts every pair of deltas
combinable_always(lhs, rhs) == TRUE

\* (a, b) (+) (c, d): valid iff b = c
combinable(lhs, rhs) == lhs.after = rhs.before

\* (a, b) (+) (c, d) = (a, d)
combine_delta_data(lhs, rhs) == DataDelta_new(lhs.before, rhs.after)

\* DeltaDataCollection::new()
EmptyCollection == [k \in {} |-> DataDelta_new(None, None)]

\* DeltaDataCollection::from_iter([(key, delta)])
from_iter(key, delta) == [k \in {key} |-> delta]

\* merge of one element into a collection: Ok iff the key is absent or the
\* deltas chain
merge_element_ok(coll, key, delta) ==
    key \in DOMAIN coll => combinable(coll[key], delta)

merge_element(coll, key, delta) ==
    [k \in DOMAIN coll \cup {key} |->
        IF k # key THEN coll[k]
        ELSE IF key \in DOMAIN coll THEN combine_delta_data(coll[key], delta)
        ELSE delta]

\* DeltaDataCollection::merge_delta_data_element: the merged collection and
\* the undo of the merged delta
merge_delta_data_element(coll, key, delta) ==
    [coll |-> merge_element(coll, key, delta), undo |-> Some(invert(delta))]

\* DeltaDataCollection::undo_merge_delta_data_element
undo_merge_delta_data_element(coll, key, undo_delta) ==
    merge_element(coll, key, undo_delta)

\* DeltaDataCollection::merge_delta_data: per key, a key absent on one side
\* is copied
merge_delta_data_ok(lhs, rhs) ==
    \A k \in DOMAIN rhs : merge_element_ok(lhs, k, rhs[k])

merge_delta_data(lhs, rhs) ==
    [k \in DOMAIN lhs \cup DOMAIN rhs |->
        IF k \in DOMAIN lhs /\ k \in DOMAIN rhs
            THEN combine_delta_data(lhs[k], rhs[k])
        ELSE IF k \in DOMAIN lhs THEN lhs[k]
        ELSE rhs[k]]

\* combine_data_with_delta(data, Some(delta)): Ok iff data = delta.before
combine_data_with_delta_ok(parent_data, local_delta) ==
    parent_data = local_delta.before

combine_data_with_delta(parent_data, local_delta) == local_delta.after

----------------------------------------------------------------------------
(* The runs of the delta tests: a chain of deltas is constructed, each in   *)
(* a collection of its own; collections are merged pairwise in any order    *)
(* and applied to the cell from the left.                                   *)

NoMerge == [done |-> FALSE, ok |-> FALSE,
            lhs |-> DataDelta_new(None, None), rhs |-> DataDelta_new(None, None),
            out |-> DataDelta_new(None, None)]

DeltaInit ==
    /\ origin_data \in Data
    /\ chain = <<>>
    /\ data = origin_data
    /\ pending = <<>>
    /\ undo = None
    /\ lastMerge = NoMerge
    /\ failed = FALSE

\* the chain constructed so far applies to the origin, link by link
RECURSIVE ValidFrom(_, _)
ValidFrom(d, ch) ==
    IF ch = <<>> THEN TRUE
    ELSE Head(ch).before = d /\ ValidFrom(Head(ch).after, Tail(ch))

ValidChain == ValidFrom(origin_data, chain)

\* let mut c = DeltaDataCollection::new(); c.merge_delta_data_element(1, delta)
NewDeltaCollection(delta) ==
    /\ ~failed
    /\ Len(chain) < MaxChain
    /\ ValidChain
    /\ LET r == merge_delta_data_element(EmptyCollection, TestKey, delta) IN
        /\ pending' = Append(pending, r.coll)
        /\ undo' = r.undo
    /\ chain' = Append(chain, delta)
    /\ UNCHANGED <<origin_data, data, lastMerge, failed>>
    /\ UNCHANGED otherThanDelta

\* the collection is built from the delta again instead of from its undo
NewUndoCollection_delta_again ==
    /\ ~failed
    /\ Len(chain) < MaxChain
    /\ ValidChain
    /\ undo # None
    /\ LET c == from_iter(TestKey, chain[Len(chain)]) IN
        /\ pending' = Append(pending, c)
        /\ chain' = Append(chain, c[TestKey])
    /\ undo' = None
    /\ UNCHANGED <<origin_data, data, lastMerge, failed>>
    /\ UNCHANGED otherThanDelta

\* let mut c = DeltaDataCollection::new(); c.undo_merge_delta_data_element(1, undo)
NewUndoCollection ==
    /\ ~failed
    /\ Len(chain) < MaxChain
    /\ ValidChain
    /\ undo # None
    /\ LET c == undo_merge_delta_data_element(EmptyCollection, TestKey, undo[1]) IN
        /\ pending' = Append(pending, c)
        /\ chain' = Append(chain, c[TestKey])
    /\ undo' = None
    /\ UNCHANGED <<origin_data, data, lastMerge, failed>>
    /\ UNCHANGED otherThanDelta

\* the later collection is taken as the receiver of the merge
MergeCollections_swapped(i) ==
    /\ ~failed
    /\ i \in 1..(Len(pending) - 1)
    /\ LET lhs == pending[i + 1]
           rhs == pending[i]
           ok == merge_delta_data_ok(lhs, rhs)
           out == merge_delta_data(lhs, rhs)
       IN
        /\ lastMerge' = [done |-> TRUE, ok |-> ok,
                         lhs |-> lhs[TestKey], rhs |-> rhs[TestKey],
                         out |-> out[TestKey]]
        /\ failed' = ~ok
        /\ pending' = IF ok
                        THEN [j \in 1..(Len(pending) - 1) |->
                                IF j < i THEN pending[j]
                                ELSE IF j = i THEN out
                                ELSE pending[j + 1]]
                        ELSE pending
    /\ UNCHANGED <<origin_data, chain, data, undo>>
    /\ UNCHANGED otherThanDelta

\* collection_i.merge_delta_data(collection_{i+1}).unwrap()
MergeCollections(i) ==
    /\ ~failed
    /\ i \in 1..(Len(pending) - 1)
    /\ LET lhs == pending[i]
           rhs == pending[i + 1]
           ok == merge_delta_data_ok(lhs, rhs)
           out == merge_delta_data(lhs, rhs)
       IN
        /\ lastMerge' = [done |-> TRUE, ok |-> ok,
                         lhs |-> lhs[TestKey], rhs |-> rhs[TestKey],
                         out |-> out[TestKey]]
        /\ failed' = ~ok
        /\ pending' = IF ok
                        THEN [j \in 1..(Len(pending) - 1) |->
                                IF j < i THEN pending[j]
                                ELSE IF j = i THEN out
                                ELSE pending[j + 1]]
                        ELSE pending
    /\ UNCHANGED <<origin_data, chain, data, undo>>
    /\ UNCHANGED otherThanDelta

\* the newest collection is applied first
ApplyCollection_last_first ==
    /\ ~failed
    /\ pending # <<>>
    /\ LET delta == pending[Len(pending)][TestKey]
           ok == combine_data_with_delta_ok(data, delta)
       IN
        /\ failed' = ~ok
        /\ data' = IF ok THEN combine_data_with_delta(data, delta) ELSE data
        /\ pending' = IF ok THEN SubSeq(pending, 1, Len(pending) - 1) ELSE pending
    /\ UNCHANGED <<origin_data, chain, undo, lastMerge>>
    /\ UNCHANGED otherThanDelta

\* combine_data_with_delta(result, Some(collection.data()[1])).unwrap()
ApplyCollection ==
    /\ ~failed
    /\ pending # <<>>
    /\ LET delta == Head(pending)[TestKey]
           ok == combine_data_with_delta_ok(data, delta)
       IN
        /\ failed' = ~ok
        /\ data' = IF ok THEN combine_data_with_delta(data, delta) ELSE data
        /\ pending' = IF ok THEN Tail(pending) ELSE pending
    /\ UNCHANGED <<origin_data, chain, undo, lastMerge>>
    /\ UNCHANGED otherThanDelta

DeltaNext ==
    \/ \E delta \in DataDelta : NewDeltaCollection(delta)
    \/ NewUndoCollection
    \/ \E i \in 1..MaxChain : MergeCollections(i)
    \/ ApplyCollection

\* the delta engine before any run
DeltaIdle ==
    /\ origin_data = None
    /\ chain = <<>>
    /\ data = None
    /\ pending = <<>>
    /\ undo = None
    /\ lastMerge = NoMerge
    /\ failed = FALSE

----------------------------------------------------------------------------
(* Layered UTXO cache.  A layer maps every outpoint to an entry: absent, or *)
(* live and Fresh (created in this layer, in no ancestor), or live and      *)
(* Dirty (diverges from the parent), or Spent (marked for deletion).        *)

OutPoints == 1..NumOutPoints
Utxos == 1..NumUtxos
OptUtxo == {None} \cup {Some(u) : u \in Utxos}

AbsentEntry == [st |-> "absent", utxo |-> None]
FreshEntry(u) == [st |-> "fresh", utxo |-> Some(u)]
DirtyEntry(u) == [st |-> "dirty", utxo |-> Some(u)]
SpentEntry == [st |-> "spent", utxo |-> None]

UtxoEntries ==
    {AbsentEntry, SpentEntry}
        \cup {FreshEntry(u) : u \in Utxos} \cup {DirtyEntry(u) : u \in Utxos}

\* UtxosCache::new: a layer holding nothing
EmptyCache == [o \in OutPoints |-> AbsentEntry]

\* the cascading read from layer n of a stack: the nearest layer holding the
\* outpoint answers, else the storage backend
RECURSIVE lookup_utxo(_, _, _, _)
lookup_utxo(storage, layers, n, outpoint) ==
    IF n = 0 THEN storage[outpoint]
    ELSE IF layers[n][outpoint].st # "absent" THEN layers[n][outpoint].utxo
    ELSE lookup_utxo(storage, layers, n - 1, outpoint)

\* the outpoint is in no layer up to n and not in the storage backend
absent_everywhere(storage, layers, n, outpoint) ==
    /\ storage[outpoint] = None
    /\ \A i \in 1..n : layers[i][outpoint].st = "absent"

\* spend_utxo: Ok iff the cascading read finds a live utxo
spend_utxo_ok(storage, layers, n, outpoint) ==
    lookup_utxo(storage, layers, n, outpoint) # None

\* spend_utxo: the entry is marked Spent in the layer spending it
spend_utxo(layers, n, outpoint) ==
    [layers EXCEPT ![n][outpoint] = SpentEntry]

\* add_utxo: Err iff a live entry exists and no overwrite is allowed
add_utxo_ok(storage, layers, n, outpoint, possible_overwrite) ==
    possible_overwrite \/ lookup_utxo(storage, layers, n, outpoint) = None

\* add_utxo: Fresh if absent everywhere (or Fresh in this layer already),
\* Dirty otherwise
add_utxo(storage, layers, n, outpoint, u) ==
    [layers EXCEPT ![n][outpoint] =
        IF \/ absent_everywhere(storage, layers, n, outpoint)
           \/ /\ layers[n][outpoint].st = "fresh"
              /\ absent_everywhere(storage, layers, n - 1, outpoint)
            THEN FreshEntry(u)
            ELSE DirtyEntry(u)]

\* the merge table of a flush, per key: is the pair (parent, child) an error
merge_entry_ok(p, c) ==
    /\ ~(c.st = "fresh" /\ p.st \in {"fresh", "dirty"})
    /\ ~(c.st = "dirty" /\ p.st = "spent")

\* the merge table of a flush, per key: the parent's entry afterwards
merge_entry(p, c) ==
    CASE c.st = "absent" -> p
      [] p.st = "absent" -> IF c.st = "spent" THEN AbsentEntry ELSE c
      [] p.st = "fresh"  -> IF c.st = "spent" THEN AbsentEntry
                                              ELSE FreshEntry(c.utxo[1])
      [] OTHER           -> IF c.st = "spent" THEN SpentEntry
                                              ELSE DirtyEntry(c.utxo[1])

\* batch_write into a layer: the child's entries are merged in key order;
\* the first conflicting key ends the flush with an error and keeps its
\* parent entry
RECURSIVE batch_write_from(_, _, _)
batch_write_from(parent, child, k) ==
    IF k > NumOutPoints THEN [ok |-> TRUE, cache |-> parent]
    ELSE IF ~merge_entry_ok(parent[k], child[k])
        THEN [ok |-> FALSE, cache |-> parent]
    ELSE batch_write_from(
            [parent EXCEPT ![k] = merge_entry(parent[k], child[k])], child, k + 1)

batch_write(parent, child) == batch_write_from(parent, child, 1)

\* batch_write into the storage backend: live entries are written, Spent
\* entries deleted
batch_write_storage(storage, child) ==
    [o \in OutPoints |->
        CASE child[o].st = "absent" -> storage[o]
          [] child[o].st = "spent"  -> None
          [] OTHER                  -> child[o].utxo]

----------------------------------------------------------------------------
(* Runs of the layered cache: layers are derived, the newest layer adds and *)
(* spends utxos, and is flushed into its parent (the layer below it, or     *)
(* the storage backend).                                                    *)

NoUtxoOp == [op |-> "none", outpoint |-> 0, ok |-> TRUE, ret |-> None,
             parent |-> EmptyCache, child |-> EmptyCache]

UtxoIdle ==
    /\ utxo_storage = [o \in OutPoints |-> None]
    /\ utxo_layers = <<>>
    /\ utxo_ops = 0
    /\ utxo_last = NoUtxoOp

UtxoInit ==
    /\ utxo_storage \in [OutPoints -> OptUtxo]
    /\ utxo_layers = <<>>
    /\ utxo_ops = 0
    /\ utxo_last = NoUtxoOp

Depth == Len(utxo_layers)

\* verifier.derive_child() / db.derive_cache()
DeriveCache ==
    /\ Depth < MaxLayers
    /\ utxo_layers' = Append(utxo_layers, EmptyCache)
    /\ utxo_last' = [NoUtxoOp EXCEPT !.op = "derive"]
    /\ UNCHANGED <<utxo_storage, utxo_ops>>
    /\ UNCHANGED otherThanUtxo

\* utxo_cache.add_utxo(&outpoint, utxo, possible_overwrite)
AddUtxo(outpoint, u, possible_overwrite) ==
    /\ Depth >= 1
    /\ utxo_ops < MaxUtxoOps
    /\ LET ok == add_utxo_ok(utxo_storage, utxo_layers, Depth, outpoint,
                             possible_overwrite)
       IN
        /\ utxo_layers' = IF ok
                            THEN add_utxo(utxo_storage, utxo_layers, Depth, outpoint, u)
                            ELSE utxo_layers
        /\ utxo_last' = [NoUtxoOp EXCEPT !.op = "add", !.outpoint = outpoint,
                                         !.ok = ok]
    /\ utxo_ops' = utxo_ops + 1
    /\ UNCHANGED utxo_storage
    /\ UNCHANGED otherThanUtxo

\* a spend that never fails: the entry is marked Spent whatever the view holds
SpendUtxo_unchecked(outpoint) ==
    /\ Depth >= 1
    /\ utxo_ops < MaxUtxoOps
    /\ utxo_layers' = spend_utxo(utxo_layers, Depth, outpoint)
    /\ utxo_last' = [NoUtxoOp EXCEPT
            !.op = "spend", !.outpoint = outpoint,
            !.ret = lookup_utxo(utxo_storage, utxo_layers, Depth, outpoint)]
    /\ utxo_ops' = utxo_ops + 1
    /\ UNCHANGED utxo_storage
    /\ UNCHANGED otherThanUtxo

\* utxo_cache.spend_utxo(&outpoint)
SpendUtxo(outpoint) ==
    /\ Depth >= 1
    /\ utxo_ops < MaxUtxoOps
    /\ LET ok == spend_utxo_ok(utxo_storage, utxo_layers, Depth, outpoint)
           found == lookup_utxo(utxo_storage, utxo_layers, Depth, outpoint)
       IN
        /\ utxo_layers' = IF ok THEN spend_utxo(utxo_layers, Depth, outpoint)
                                ELSE utxo_layers
        /\ utxo_last' = [NoUtxoOp EXCEPT !.op = "spend", !.outpoint = outpoint,
                                         !.ok = ok,
                                         !.ret = IF ok THEN found ELSE None]
    /\ utxo_ops' = utxo_ops + 1
    /\ UNCHANGED utxo_storage
    /\ UNCHANGED otherThanUtxo

\* a flush in which every entry of the child replaces the parent's
FlushCache_child_wins ==
    /\ Depth >= 1
    /\ LET child == utxo_layers[Depth]
           rest == SubSeq(utxo_layers, 1, Depth - 1)
       IN
        IF Depth = 1
            THEN /\ utxo_storage' = batch_write_storage(utxo_storage, child)
                 /\ utxo_layers' = rest
                 /\ utxo_last' = [NoUtxoOp EXCEPT !.op = "store", !.child = child]
            ELSE /\ utxo_layers' = [rest EXCEPT ![Depth - 1] =
                        [k \in OutPoints |->
                            IF child[k].st = "absent" THEN rest[Depth - 1][k]
                                                      ELSE child[k]]]
                 /\ utxo_last' = [NoUtxoOp EXCEPT
                        !.op = "flush",
                        !.parent = utxo_layers[Depth - 1], !.child = child]
                 /\ UNCHANGED utxo_storage
    /\ UNCHANGED utxo_ops
    /\ UNCHANGED otherThanUtxo

\* let consumed = child.consume(); flush(&mut parent, consumed)
FlushCache ==
    /\ Depth >= 1
    /\ LET child == utxo_layers[Depth]
           rest == SubSeq(utxo_layers, 1, Depth - 1)
       IN
        IF Depth = 1
            THEN /\ utxo_storage' = batch_write_storage(utxo_storage, child)
                 /\ utxo_layers' = rest
                 /\ utxo_last' = [NoUtxoOp EXCEPT !.op = "store", !.child = child]
            ELSE LET r == batch_write(utxo_layers[Depth - 1], child) IN
                 /\ utxo_layers' = [rest EXCEPT ![Depth - 1] = r.cache]
                 /\ utxo_last' = [NoUtxoOp EXCEPT
                        !.op = "flush", !.ok = r.ok,
                        !.parent = utxo_layers[Depth - 1], !.child = child]
                 /\ UNCHANGED utxo_storage
    /\ UNCHANGED otherThanUtxo
    /\ UNCHANGED utxo_ops
    /\ UNCHANGED otherThanUtxo

\* parent.batch_write(consumed): the consumed cache of another child of the
\* layer, built before the layer came to its present state
BatchWrite(child) ==
    /\ Depth >= 1
    /\ utxo_ops < MaxUtxoOps
    /\ child # EmptyCache
    /\ LET r == batch_write(utxo_layers[Depth], child) IN
        /\ utxo_layers' = [utxo_layers EXCEPT ![Depth] = r.cache]
        /\ utxo_last' = [NoUtxoOp EXCEPT
                !.op = "flush", !.ok = r.ok,
                !.parent = utxo_layers[Depth], !.child = child]
    /\ utxo_ops' = utxo_ops + 1
    /\ UNCHANGED utxo_storage
    /\ UNCHANGED otherThanUtxo

UtxoNext ==
    \/ DeriveCache
    \/ \E o \in OutPoints, u \in Utxos, ow \in BOOLEAN : AddUtxo(o, u, ow)
    \/ \E o \in OutPoints : SpendUtxo(o)
    \/ FlushCache
    \/ \E child \in [OutPoints -> UtxoEntries] : BatchWrite(child)

----------------------------------------------------------------------------
(* Hierarchical transaction verifier.  A verifier is an overlay of          *)
(* sub-caches over its parent: the UTXO cache, the block-undo cache, the    *)
(* tx-index cache, the token-issuance cache (aux data by token id, token id *)
(* by issuance tx) and the accounting deltas.                               *)

BlockIds == 1..NumKeys
TxIndexKeys == 1..NumKeys
TokenIds == 1..NumKeys
AccountingKeys == 1..NumKeys
Payloads == 1..NumPayloads

\* CachedInputsOperation / CachedAuxDataOp / CachedTokenIndexOp
NoOp == [op |-> "none", v |-> 0]
Write(v) == [op |-> "write", v |-> v]
Erase == [op |-> "erase", v |-> 0]

\* BlockUndoEntry { undo, is_fresh }
NoUndoEntry == [st |-> "none", undo |-> 0, is_fresh |-> FALSE]
BlockUndoEntry(undo_data, is_fresh) ==
    [st |-> "entry", undo |-> undo_data, is_fresh |-> is_fresh]

VerifierData == {None} \cup {Some(v) : v \in Payloads}
VerifierDeltas == {DataDelta_new(b, a) : b \in VerifierData, a \in VerifierData}

\* TransactionVerifier::new / derive_child: an overlay holding nothing
EmptyVerifier ==
    [utxo_cache |-> EmptyCache,
     utxo_block_undo |-> [b \in BlockIds |-> NoUndoEntry],
     tx_index_cache |-> [k \in TxIndexKeys |-> NoOp],
     token_aux |-> [t \in TokenIds |-> NoOp],
     token_ids |-> [x \in Payloads |-> NoOp],
     accounting |-> EmptyCollection]

NoError == [kind |-> "Ok", id |-> 0]
VerifierError(kind, id) == [kind |-> kind, id |-> id]

\* a map of cached operations written into the parent's map in key order:
\* a Write for a key the parent already holds an operation for is an error
\* and keeps the parent's operation; an Erase replaces it
RECURSIVE flush_ops_from(_, _, _, _)
flush_ops_from(parent, child, k, last) ==
    IF k > last THEN [ok |-> TRUE, id |-> 0, map |-> parent]
    ELSE IF child[k].op = "write" /\ parent[k].op # "none"
        THEN [ok |-> FALSE, id |-> k, map |-> parent]
    ELSE flush_ops_from(
            IF child[k].op = "none" THEN parent ELSE [parent EXCEPT ![k] = child[k]],
            child, k + 1, last)

\* the token-id index names the token being registered in its error
RECURSIVE flush_token_ids_from(_, _, _)
flush_token_ids_from(parent, child, x) ==
    IF x > NumPayloads THEN [ok |-> TRUE, id |-> 0, map |-> parent]
    ELSE IF child[x].op = "write" /\ parent[x].op # "none"
        THEN [ok |-> FALSE, id |-> child[x].v, map |-> parent]
    ELSE flush_token_ids_from(
            IF child[x].op = "none" THEN parent ELSE [parent EXCEPT ![x] = child[x]],
            child, x + 1)

\* block undo written into the parent's cache in key order: fresh undo for a
\* block the parent holds an entry for is an error and keeps the parent's
\* entry; an entry that deletes replaces it
RECURSIVE flush_block_undo_from(_, _, _)
flush_block_undo_from(parent, child, b) ==
    IF b > NumKeys THEN [ok |-> TRUE, id |-> 0, map |-> parent]
    ELSE IF child[b].st = "entry" /\ child[b].is_fresh /\ parent[b].st # "none"
        THEN [ok |-> FALSE, id |-> b, map |-> parent]
    ELSE flush_block_undo_from(
            IF child[b].st = "none" THEN parent ELSE [parent EXCEPT ![b] = child[b]],
            child, b + 1)

\* flush_to_storage(&mut parent_verifier, consumed): the sub-caches are
\* written in turn (tx index, token aux data, token ids, utxos, block undo,
\* accounting deltas); the first error ends the flush
flush_to_verifier(to, consumed) ==
    LET tx == flush_ops_from(to.tx_index_cache, consumed.tx_index_cache, 1, NumKeys)
        to1 == [to EXCEPT !.tx_index_cache = tx.map]
        aux == flush_ops_from(to.token_aux, consumed.token_aux, 1, NumKeys)
        to2 == [to1 EXCEPT !.token_aux = aux.map]
        ids == flush_token_ids_from(to.token_ids, consumed.token_ids, 1)
        to3 == [to2 EXCEPT !.token_ids = ids.map]
        ut == batch_write(to.utxo_cache, consumed.utxo_cache)
        to4 == [to3 EXCEPT !.utxo_cache = ut.cache]
        un == flush_block_undo_from(to.utxo_block_undo, consumed.utxo_block_undo, 1)
        to5 == [to4 EXCEPT !.utxo_block_undo = un.map]
        acc_ok == merge_delta_data_ok(to.accounting, consumed.accounting)
        to6 == [to5 EXCEPT !.accounting = merge_delta_data(to.accounting, consumed.accounting)]
    IN
    IF ~tx.ok THEN
        [err |-> VerifierError("TxIndexError::OutputAlreadyPresentInInputsCache", 0),
         to |-> to1]
    ELSE IF ~aux.ok THEN
        [err |-> VerifierError(
            "TokensError::InvariantBrokenRegisterIssuanceWithDuplicateId", aux.id),
         to |-> to2]
    ELSE IF ~ids.ok THEN
        [err |-> VerifierError(
            "TokensError::InvariantBrokenRegisterIssuanceWithDuplicateId", ids.id),
         to |-> to3]
    ELSE IF ~ut.ok THEN [err |-> VerifierError("UtxoError", 0), to |-> to4]
    ELSE IF ~un.ok THEN [err |-> VerifierError("DuplicateBlockUndo", un.id), to |-> to5]
    ELSE IF ~acc_ok THEN [err |-> VerifierError("AccountingError", 0), to |-> to5]
    ELSE [err |-> NoError, to |-> to6]

\* the store's map after the cached operations of a sub-cache are applied:
\* set_*(key, value) for a Write, del_*(key) for an Erase
store_ops(map, child) ==
    [k \in DOMAIN map |->
        CASE child[k].op = "write" -> Some(child[k].v)
          [] child[k].op = "erase" -> None
          [] OTHER                 -> map[k]]

\* a store that is never asked to delete undo data
store_block_undo_never_deleted(map, child) ==
    [b \in DOMAIN map |->
        IF child[b].st # "none" /\ child[b].is_fresh THEN Some(child[b].undo)
                                                     ELSE map[b]]

\* set_undo_data(id, undo) for a fresh entry, del_undo_data(id) otherwise
store_block_undo(map, child) ==
    [b \in DOMAIN map |->
        CASE child[b].st = "none" -> map[b]
          [] child[b].is_fresh    -> Some(child[b].undo)
          [] OTHER                -> None]

\* the accounting data of the store with the deltas applied
store_accounting(map, coll) ==
    [k \in DOMAIN map |->
        IF k \in DOMAIN coll THEN combine_data_with_delta(map[k], coll[k])
                             ELSE map[k]]

store_accounting_ok(map, coll) ==
    \A k \in DOMAIN coll : combine_data_with_delta_ok(map[k], coll[k])

\* flush_to_storage(&mut store, consumed)
flush_to_store(store, consumed) ==
    LET acc_ok == store_accounting_ok(store.accounting, consumed.accounting)
        to5 == [utxos |-> batch_write_storage(store.utxos, consumed.utxo_cache),
                undo |-> store_block_undo(store.undo, consumed.utxo_block_undo),
                tx_index |-> store_ops(store.tx_index, consumed.tx_index_cache),
                token_aux |-> store_ops(store.token_aux, consumed.token_aux),
                token_ids |-> store_ops(store.token_ids, consumed.token_ids),
                accounting |-> store.accounting]
    IN
    IF ~acc_ok THEN [err |-> VerifierError("AccountingError", 0), to |-> to5]
    ELSE [err |-> NoError,
          to |-> [to5 EXCEPT !.accounting =
                    store_accounting(store.accounting, consumed.accounting)]]

----------------------------------------------------------------------------
(* Runs of the verifier hierarchy: verifiers are derived, the newest one    *)
(* has its sub-caches written, and is consumed and flushed into its parent  *)
(* (the verifier below it, or the store).                                   *)

EmptyStore ==
    [utxos |-> [o \in OutPoints |-> None],
     undo |-> [b \in BlockIds |-> None],
     tx_index |-> [k \in TxIndexKeys |-> None],
     token_aux |-> [t \in TokenIds |-> None],
     token_ids |-> [x \in Payloads |-> None],
     accounting |-> [k \in AccountingKeys |-> None]]

NoFlush == [op |-> "none", err |-> NoError,
            parent |-> EmptyVerifier, child |-> EmptyVerifier]

VerIdle ==
    /\ ver_store = EmptyStore
    /\ ver_layers = <<>>
    /\ ver_ops = 0
    /\ ver_last = NoFlush

\* let mut store = mock::MockStore::new(), holding some utxos
VerInit ==
    /\ \E utxos \in [OutPoints -> OptUtxo] :
        ver_store = [EmptyStore EXCEPT !.utxos = utxos]
    /\ ver_layers = <<>>
    /\ ver_ops = 0
    /\ ver_last = NoFlush

Verifiers == Len(ver_layers)

\* the utxo caches of the verifiers, the newest last
utxo_caches == [i \in 1..Verifiers |-> ver_layers[i].utxo_cache]

\* TransactionVerifier::new(&store, &chain_config) / verifier1.derive_child()
DeriveChild ==
    /\ Verifiers < MaxVerifiers
    /\ ver_layers' = Append(ver_layers, EmptyVerifier)
    /\ ver_last' = NoFlush
    /\ UNCHANGED <<ver_store, ver_ops>>
    /\ UNCHANGED otherThanVer

\* the newest verifier with one of its sub-caches changed
WriteSubCache(verifier) ==
    /\ ver_layers' = [ver_layers EXCEPT ![Verifiers] = verifier]
    /\ ver_ops' = ver_ops + 1
    /\ ver_last' = NoFlush
    /\ UNCHANGED ver_store
    /\ UNCHANGED otherThanVer

\* verifier.utxo_cache.add_utxo(&outpoint, utxo, false).unwrap()
VerifierAddUtxo(outpoint, u) ==
    /\ Verifiers >= 1
    /\ ver_ops < MaxVerifierOps
    /\ add_utxo_ok(ver_store.utxos, utxo_caches, Verifiers, outpoint, FALSE)
    /\ WriteSubCache([ver_layers[Verifiers] EXCEPT !.utxo_cache =
            add_utxo(ver_store.utxos, utxo_caches, Verifiers, outpoint, u)[Verifiers]])

\* verifier.utxo_cache.spend_utxo(&outpoint): Ok, or Err(NoUtxoFound) and no
\* change
VerifierSpendUtxo(outpoint) ==
    /\ Verifiers >= 1
    /\ ver_ops < MaxVerifierOps
    /\ WriteSubCache([ver_layers[Verifiers] EXCEPT !.utxo_cache =
            IF spend_utxo_ok(ver_store.utxos, utxo_caches, Verifiers, outpoint)
                THEN spend_utxo(utxo_caches, Verifiers, outpoint)[Verifiers]
                ELSE @])

\* verifier.utxo_block_undo.insert(block_id, BlockUndoEntry { undo, is_fresh })
InsertBlockUndo(block_id, undo_data, is_fresh) ==
    /\ Verifiers >= 1
    /\ ver_ops < MaxVerifierOps
    /\ WriteSubCache([ver_layers[Verifiers] EXCEPT
            !.utxo_block_undo[block_id] = BlockUndoEntry(undo_data, is_fresh)])

\* verifier.tx_index_cache = TxIndexCache::new_for_test({outpoint: op})
SetTxIndexCache(outpoint, op) ==
    /\ Verifiers >= 1
    /\ ver_ops < MaxVerifierOps
    /\ WriteSubCache([ver_layers[Verifiers] EXCEPT
            !.tx_index_cache = [EmptyVerifier.tx_index_cache EXCEPT ![outpoint] = op]])

\* verifier.token_issuance_cache = TokenIssuanceCache::new_for_test(
\*     {token_id: aux op}, {issuance tx id: index op})
SetTokenIssuanceCache(token_id, issuance_tx, erase) ==
    /\ Verifiers >= 1
    /\ ver_ops < MaxVerifierOps
    /\ WriteSubCache([ver_layers[Verifiers] EXCEPT
            !.token_aux = [EmptyVerifier.token_aux EXCEPT ![token_id] =
                IF erase THEN Erase ELSE Write(issuance_tx)],
            !.token_ids = [EmptyVerifier.token_ids EXCEPT ![issuance_tx] =
                IF erase THEN Erase ELSE Write(token_id)]])

\* an accounting effect of a connected transaction: the delta is merged into
\* the verifier's collection; a delta that does not chain is an error and
\* changes nothing
MergeAccountingDelta(key, delta) ==
    /\ Verifiers >= 1
    /\ ver_ops < MaxVerifierOps
    /\ WriteSubCache([ver_layers[Verifiers] EXCEPT !.accounting =
            IF merge_element_ok(@, key, delta) THEN merge_element(@, key, delta)
                                               ELSE @])

\* a flush in which the child's entries replace the parent's and no conflict
\* is reported
FlushVerifier_overwrite ==
    /\ Verifiers >= 1
    /\ LET consumed == ver_layers[Verifiers]
           rest == SubSeq(ver_layers, 1, Verifiers - 1)
       IN
        IF Verifiers = 1
            THEN LET r == flush_to_store(ver_store, consumed) IN
                 /\ ver_store' = r.to
                 /\ ver_layers' = rest
                 /\ ver_last' = [NoFlush EXCEPT !.op = "store", !.err = r.err,
                                                !.child = consumed]
            ELSE LET to == rest[Verifiers - 1]
                     keep(parent, child, none) ==
                        [k \in DOMAIN parent |->
                            IF child[k] = none THEN parent[k] ELSE child[k]]
                 IN
                 /\ ver_layers' = [rest EXCEPT ![Verifiers - 1] =
                        [flush_to_verifier(to, consumed).to EXCEPT
                            !.utxo_block_undo =
                                keep(to.utxo_block_undo, consumed.utxo_block_undo,
                                     NoUndoEntry),
                            !.tx_index_cache =
                                keep(to.tx_index_cache, consumed.tx_index_cache, NoOp),
                            !.token_aux = keep(to.token_aux, consumed.token_aux, NoOp)]]
                 /\ ver_last' = [NoFlush EXCEPT !.op = "flush",
                                                !.parent = to, !.child = consumed]
                 /\ UNCHANGED ver_store
    /\ UNCHANGED ver_ops
    /\ UNCHANGED otherThanVer

\* let consumed = verifier.consume().unwrap();
\* flush::flush_to_storage(&mut parent, consumed)
FlushVerifier ==
    /\ Verifiers >= 1
    /\ LET consumed == ver_layers[Verifiers]
           rest == SubSeq(ver_layers, 1, Verifiers - 1)
       IN
        IF Verifiers = 1
            THEN LET r == flush_to_store(ver_store, consumed) IN
                 /\ ver_store' = r.to
                 /\ ver_layers' = rest
                 /\ ver_last' = [NoFlush EXCEPT !.op = "store", !.err = r.err,
                                                !.child = consumed]
            ELSE LET r == flush_to_verifier(rest[Verifiers - 1], consumed) IN
                 /\ ver_layers' = [rest EXCEPT ![Verifiers - 1] = r.to]
                 /\ ver_last' = [NoFlush EXCEPT !.op = "flush", !.err = r.err,
                                                !.parent = rest[Verifiers - 1],
                                                !.child = consumed]
                 /\ UNCHANGED ver_store
    /\ UNCHANGED ver_ops
    /\ UNCHANGED otherThanVer

VerNext ==
    \/ DeriveChild
    \/ \E o \in OutPoints, u \in Utxos : VerifierAddUtxo(o, u)
    \/ \E o \in OutPoints : VerifierSpendUtxo(o)
    \/ \E b \in BlockIds, undo_data \in Payloads, is_fresh \in BOOLEAN :
        InsertBlockUndo(b, undo_data, is_fresh)
    \/ \E k \in TxIndexKeys, op \in {Write(v) : v \in Payloads} \cup {Erase} :
        SetTxIndexCache(k, op)
    \/ \E t \in TokenIds, x \in Payloads, erase \in BOOLEAN :
        SetTokenIssuanceCache(t, x, erase)
    \/ \E k \in AccountingKeys, delta \in VerifierDeltas :
        MergeAccountingDelta(k, delta)
    \/ FlushVerifier

----------------------------------------------------------------------------
(* Transactions and blocks over the utxo set.  A transaction spends its     *)
(* inputs in order and creates its outputs; a block is its transactions in  *)
(* order.  The utxos spent are the undo data of the block.                  *)

\* Transaction::new(flags, inputs, outputs, lock_time)
Transactions ==
    [inputs : UNION {[1..n -> OutPoints] : n \in 1..MaxInputs},
     outputs : [OutPoints -> OptUtxo]]

\* Block::new(txs, prev_block_id, ...)
Blocks == UNION {[1..n -> Transactions] : n \in 1..MaxBlockTxs}

\* the inputs of a transaction spent in order in layer n, the utxos spent
\* collected; the first input that cannot be spent ends it with an error
RECURSIVE spend_inputs(_, _, _, _, _)
spend_inputs(storage, layers, n, inputs, spent) ==
    IF inputs = <<>> THEN [ok |-> TRUE, layers |-> layers, undo |-> spent]
    ELSE IF ~spend_utxo_ok(storage, layers, n, Head(inputs))
        THEN [ok |-> FALSE, layers |-> layers, undo |-> spent]
    ELSE spend_inputs(
            storage, spend_utxo(layers, n, Head(inputs)), n, Tail(inputs),
            Append(spent, lookup_utxo(storage, layers, n, Head(inputs))[1]))

\* the outputs of a transaction added in layer n, none overwriting
RECURSIVE add_outputs(_, _, _, _, _)
add_outputs(storage, layers, n, outputs, k) ==
    IF k > NumOutPoints THEN [ok |-> TRUE, layers |-> layers]
    ELSE IF outputs[k] = None THEN add_outputs(storage, layers, n, outputs, k + 1)
    ELSE IF ~add_utxo_ok(storage, layers, n, k, FALSE)
        THEN [ok |-> FALSE, layers |-> layers]
    ELSE add_outputs(
            storage, add_utxo(storage, layers, n, k, outputs[k][1]), n, outputs, k + 1)

\* view.spend_utxos(tx, height) -> Result<TxUndo>
spend_utxos(storage, layers, n, tx) ==
    LET ins == spend_inputs(storage, layers, n, tx.inputs, <<>>)
        outs == add_outputs(storage, ins.layers, n, tx.outputs, 1)
    IN
    IF ~ins.ok THEN [ok |-> FALSE, layers |-> ins.layers, undo |-> ins.undo]
    ELSE [ok |-> outs.ok, layers |-> outs.layers, undo |-> ins.undo]

\* block.get_transactions().iter().map(|tx| view.spend_utxos(tx, height))
RECURSIVE spend_block(_, _, _, _)
spend_block(storage, layers, txs, undos) ==
    IF txs = <<>> THEN [ok |-> TRUE, layers |-> layers, undo |-> undos]
    ELSE LET r == spend_utxos(storage, layers, 1, Head(txs)) IN
         IF ~r.ok THEN [ok |-> FALSE, layers |-> r.layers, undo |-> undos]
         ELSE spend_block(storage, r.layers, Tail(txs), Append(undos, r.undo))

\* the outputs a transaction created are removed from the view
RECURSIVE remove_outputs(_, _, _, _)
remove_outputs(storage, layers, outputs, k) ==
    IF k > NumOutPoints THEN [ok |-> TRUE, layers |-> layers]
    ELSE IF outputs[k] = None THEN remove_outputs(storage, layers, outputs, k + 1)
    ELSE IF ~spend_utxo_ok(storage, layers, 1, k)
        THEN [ok |-> FALSE, layers |-> layers]
    ELSE remove_outputs(storage, spend_utxo(layers, 1, k), outputs, k + 1)

\* view.add_utxo(utxo.clone(), input.get_outpoint(), true) for every input,
\* with the utxo of the same index in the undo of the transaction
RECURSIVE readd_inputs(_, _, _, _, _)
readd_inputs(storage, layers, inputs, tx_undo, i) ==
    IF i > Len(inputs) THEN layers
    ELSE readd_inputs(
            storage, add_utxo(storage, layers, 1, inputs[i], tx_undo[i]),
            inputs, tx_undo, i + 1)

\* the transactions of a block disconnected, the last one first
RECURSIVE unspend_block(_, _, _, _, _)
unspend_block(storage, layers, txs, block_undo, i) ==
    IF i = 0 THEN [ok |-> TRUE, layers |-> layers]
    ELSE LET removed == remove_outputs(storage, layers, txs[i].outputs, 1) IN
         IF ~removed.ok THEN [ok |-> FALSE, layers |-> removed.layers]
         ELSE unspend_block(
                storage,
                readd_inputs(storage, removed.layers, txs[i].inputs, block_undo[i], 1),
                txs, block_undo, i - 1)

----------------------------------------------------------------------------
(* Runs of the utxo db: blocks are connected on the db's utxo set, their    *)
(* undo stored, and the last block connected is disconnected with it.       *)

BlockHeights == 1..MaxBlocks

\* the blocks whose undo the db holds
Connected == {h \in BlockHeights : blk_undo[h] # None}

NoBlockOp == [op |-> "none", ok |-> TRUE, block |-> <<>>, secured |-> <<>>]

BlkIdle ==
    /\ blk_storage = [o \in OutPoints |-> None]
    /\ blk_undo = [h \in BlockHeights |-> None]
    /\ blk_chain = <<>>
    /\ blk_last = NoBlockOp

\* initialize_db: the db is populated with outputs
BlkInit ==
    /\ blk_storage \in [OutPoints -> OptUtxo]
    /\ blk_undo = [h \in BlockHeights |-> None]
    /\ blk_chain = <<>>
    /\ blk_last = NoBlockOp

\* a view is derived from the db, the block is spent in it, the view is
\* flushed to the db and the undo saved under the block's id; a transaction
\* that cannot be spent ends the run and leaves the db as it was
ConnectBlock(block) ==
    /\ blk_last.ok
    /\ Cardinality(Connected) < MaxBlocks
    /\ LET r == spend_block(blk_storage, <<EmptyCache>>, block, <<>>)
           id == Cardinality(Connected) + 1
       IN
        IF r.ok
            THEN /\ blk_storage' = batch_write_storage(blk_storage, r.layers[1])
                 /\ blk_undo' = [blk_undo EXCEPT ![id] = Some(r.undo)]
                 /\ blk_chain' = Append(blk_chain,
                        [id |-> id, block |-> block, secured |-> blk_storage])
                 /\ blk_last' = [NoBlockOp EXCEPT !.op = "connect", !.block = block]
            ELSE /\ blk_last' = [NoBlockOp EXCEPT !.op = "connect", !.ok = FALSE,
                                                  !.block = block]
                 /\ UNCHANGED <<blk_storage, blk_undo, blk_chain>>
    /\ UNCHANGED otherThanBlk

\* a disconnect that adds the spent utxos back and keeps the created ones
DisconnectBlock_keeps_outputs ==
    /\ blk_last.ok
    /\ blk_chain # <<>>
    /\ LET height == Len(blk_chain)
           tip == blk_chain[height]
           block_undo == blk_undo[tip.id][1]
           inputs_only == [j \in 1..Len(tip.block) |->
                [tip.block[j] EXCEPT !.outputs = [o \in OutPoints |-> None]]]
           r == unspend_block(blk_storage, <<EmptyCache>>, inputs_only, block_undo,
                              Len(tip.block))
       IN
        /\ blk_storage' = batch_write_storage(blk_storage, r.layers[1])
        /\ blk_chain' = SubSeq(blk_chain, 1, height - 1)
        /\ blk_last' = [op |-> "disconnect", ok |-> r.ok, block |-> tip.block,
                        secured |-> tip.secured]
    /\ UNCHANGED blk_undo
    /\ UNCHANGED otherThanBlk

\* the undo of the best block is read from the db, a view takes back what
\* the block did, the last transaction first, and is flushed to the db
DisconnectBlock ==
    /\ blk_last.ok
    /\ blk_chain # <<>>
    /\ LET height == Len(blk_chain)
           tip == blk_chain[height]
           block_undo == blk_undo[tip.id][1]
           r == unspend_block(blk_storage, <<EmptyCache>>, tip.block, block_undo,
                              Len(tip.block))
       IN
        /\ blk_storage' = IF r.ok THEN batch_write_storage(blk_storage, r.layers[1])
                                  ELSE blk_storage
        /\ blk_chain' = IF r.ok THEN SubSeq(blk_chain, 1, height - 1) ELSE blk_chain
        /\ blk_last' = [op |-> "disconnect", ok |-> r.ok, block |-> tip.block,
                        secured |-> tip.secured]
    /\ UNCHANGED blk_undo
    /\ UNCHANGED otherThanBlk

BlkNext ==
    \/ \E block \in Blocks : ConnectBlock(block)
    \/ DisconnectBlock

----------------------------------------------------------------------------
(* The mempool verifying a candidate against the consensus rules.           *)
(* verify_transaction reads the tip, derives a child of the mempool's       *)
(* verifier, connects the transaction in the child, reads the tip again,    *)
(* and returns the child's delta if the tip has not moved; the chainstate   *)
(* runs beside it and may move the tip between its calls.                   *)

\* tx_verifier.connect_transaction(source, tx, median_time, None) in the
\* verifier at layer n: the inputs are spent and the outputs created in its
\* utxo cache, and the other rules (timelocks, signatures, fee) are checked
connect_transaction(storage, layers, n, tx, rules_pass) ==
    LET r == spend_utxos(storage, layers, n, tx) IN
    [ok |-> r.ok /\ rules_pass, layers |-> r.layers]

NoJob == [tx |-> [inputs |-> <<1>>, outputs |-> [o \in OutPoints |-> None]],
          rules_pass |-> TRUE, attempts |-> 0, tip |-> 0, child |-> EmptyCache]

AdmIdle ==
    /\ adm_storage = [o \in OutPoints |-> None]
    /\ adm_tip = 0
    /\ adm_verifier = EmptyCache
    /\ adm_pc = "idle"
    /\ adm_job = NoJob
    /\ adm_result = "none"

\* Mempool::new over a chainstate holding some utxos
AdmInit ==
    /\ adm_storage \in [OutPoints -> OptUtxo]
    /\ adm_tip = 0
    /\ adm_verifier = EmptyCache
    /\ adm_pc = "idle"
    /\ adm_job = NoJob
    /\ adm_result = "none"

\* verify_transaction(&self, tx) is entered
VerifyTransaction(tx, rules_pass) ==
    /\ adm_pc = "idle"
    /\ adm_job' = [NoJob EXCEPT !.tx = tx, !.rules_pass = rules_pass]
    /\ adm_pc' = "attempt"
    /\ adm_result' = "none"
    /\ UNCHANGED <<adm_storage, adm_tip, adm_verifier>>
    /\ UNCHANGED otherThanAdm

\* an attempt that connects the transaction in the mempool's own verifier
ConnectInChild_no_child ==
    /\ adm_pc = "attempt"
    /\ LET r == connect_transaction(adm_storage, <<adm_verifier>>, 1,
                                    adm_job.tx, adm_job.rules_pass)
       IN
        /\ adm_verifier' = r.layers[1]
        /\ IF r.ok
            THEN /\ adm_pc' = "connected"
                 /\ adm_job' = [adm_job EXCEPT !.tip = adm_tip]
                 /\ UNCHANGED adm_result
            ELSE /\ adm_pc' = "idle"
                 /\ adm_job' = [adm_job EXCEPT !.attempts = 0, !.tip = 0, !.child = EmptyCache]
                 /\ adm_result' = "ConnectFailed"
    /\ UNCHANGED <<adm_storage, adm_tip>>
    /\ UNCHANGED otherThanAdm

\* one turn of the loop up to connect_transaction: the tip is read, a child
\* is derived and the transaction connected in it; an error returns at once
\* and the child is dropped
ConnectInChild ==
    /\ adm_pc = "attempt"
    /\ LET r == connect_transaction(adm_storage, <<adm_verifier, EmptyCache>>, 2,
                                    adm_job.tx, adm_job.rules_pass)
       IN
        IF r.ok
            THEN /\ adm_pc' = "connected"
                 /\ adm_job' = [adm_job EXCEPT !.tip = adm_tip, !.child = r.layers[2]]
                 /\ UNCHANGED adm_result
            ELSE /\ adm_pc' = "idle"
                 /\ adm_job' = [adm_job EXCEPT !.attempts = 0, !.tip = 0, !.child = EmptyCache]
                 /\ adm_result' = "ConnectFailed"
    /\ UNCHANGED <<adm_storage, adm_tip, adm_verifier>>
    /\ UNCHANGED otherThanAdm

\* a turn that takes the child's delta whatever the tip has become
CheckTip_ignores_tip ==
    /\ adm_pc = "connected"
    /\ adm_pc' = "verified"
    /\ adm_result' = "Ok"
    /\ UNCHANGED <<adm_job, adm_storage, adm_tip, adm_verifier>>
    /\ UNCHANGED otherThanAdm

\* the rest of the turn: the tip is read again; if it is the tip read before,
\* the child is consumed and its delta returned; else the child is dropped
\* and the loop turns again, or ends with TipMoved after the last attempt
CheckTip ==
    /\ adm_pc = "connected"
    /\ IF adm_job.tip = adm_tip
        THEN /\ adm_pc' = "verified"
             /\ adm_result' = "Ok"
             /\ UNCHANGED adm_job
        ELSE IF adm_job.attempts + 1 < MAX_TX_ADDITION_ATTEMPTS
        THEN /\ adm_pc' = "attempt"
             /\ adm_job' = [adm_job EXCEPT !.attempts = @ + 1, !.child = EmptyCache]
             /\ UNCHANGED adm_result
        ELSE /\ adm_pc' = "idle"
             /\ adm_job' = [adm_job EXCEPT !.attempts = 0, !.tip = 0, !.child = EmptyCache]
             /\ adm_result' = "TipMoved"
    /\ UNCHANGED <<adm_storage, adm_tip, adm_verifier>>
    /\ UNCHANGED otherThanAdm

\* tx_verifier::flush_to_storage(&mut self.tx_verifier, delta)
FlushDelta ==
    /\ adm_pc = "verified"
    /\ LET r == batch_write(adm_verifier, adm_job.child) IN
        /\ adm_verifier' = r.cache
        /\ adm_result' = IF r.ok THEN "Ok" ELSE "FlushFailed"
    /\ adm_pc' = "idle"
    /\ adm_job' = NoJob
    /\ UNCHANGED <<adm_storage, adm_tip>>
    /\ UNCHANGED otherThanAdm

\* the chainstate connects a block, which spends or creates the utxo of an
\* outpoint: the best block and the utxo set change
TipMoves(outpoint, utxo) ==
    /\ adm_tip < MaxTipMoves
    /\ utxo # adm_storage[outpoint]
    /\ adm_tip' = adm_tip + 1
    /\ adm_storage' = [adm_storage EXCEPT ![outpoint] = utxo]
    /\ UNCHANGED <<adm_verifier, adm_pc, adm_job, adm_result>>
    /\ UNCHANGED otherThanAdm

AdmNext ==
    \/ \E tx \in Transactions, rules_pass \in BOOLEAN : VerifyTransaction(tx, rules_pass)
    \/ ConnectInChild
    \/ CheckTip
    \/ FlushDelta
    \/ \E outpoint \in OutPoints, utxo \in OptUtxo : TipMoves(outpoint, utxo)

----------------------------------------------------------------------------
(* The mempool's store of entries (MempoolStore) and its candidates.        *)

TxIds == 1..NumTxs

\* the outpoint of the output of candidate t
output_of(t) == NumConfirmed + t

PoolOutPoints == 1..(NumConfirmed + NumTxs)

\* the transaction an outpoint belongs to, 0 for a confirmed one
source_tx(outpoint) == IF outpoint > NumConfirmed THEN outpoint - NumConfirmed ELSE 0

\* the candidates: 1 is a cheap parent, 2 its well paying child, 5 the child
\* of 2; 3 and 4 stand alone; 6 spends what 2 and 3 spend; NumTxs + 1 is
\* handed to the replacement rules only and spends what 1 and 2 spend
tx_inputs(t) ==
    CASE t = 1 -> <<1>>
      [] t = NumTxs + 1 -> <<1, output_of(1)>>
      [] t = 2 -> <<output_of(1)>>
      [] t = 3 -> <<2>>
      [] t = 4 -> <<3>>
      [] t = 5 -> <<output_of(2)>>
      [] OTHER -> <<output_of(1), 2>>

tx_fee(t) ==
    CASE t = 1 -> 1
      [] t = 2 -> 5
      [] t = 3 -> 2
      [] t = 4 -> 4
      [] t = 5 -> 4
      [] OTHER -> 8

\* tx.encoded_size()
tx_size(t) == IF t = 6 THEN 4 ELSE 1

inputs_of(t) == {tx_inputs(t)[i] : i \in 1..Len(tx_inputs(t))}

EmptyPoolStore == << >>

\* store.txs_by_id.contains_key(id)
contains_key(store, id) == id \in DOMAIN store

RECURSIVE sum_fees(_, _)
sum_fees(store, ids) ==
    IF ids = {} THEN 0
    ELSE LET t == CHOOSE x \in ids : TRUE IN
         store[t].fee + sum_fees(store, ids \ {t})

RECURSIVE sum_sizes(_, _)
sum_sizes(store, ids) ==
    IF ids = {} THEN 0
    ELSE LET t == CHOOSE x \in ids : TRUE IN
         store[t].size + sum_sizes(store, ids \ {t})

\* get_memory_usage(): the sizes of the entries the store holds
get_memory_usage(store) == sum_sizes(store, DOMAIN store)

\* the fees and the size of an entry with its descendants
fees_with_descendants(store, id) == sum_fees(store, {id} \cup store[id].descendants)
size_with_descendants(store, id) == sum_sizes(store, {id} \cup store[id].descendants)

\* descendant_score(a) < descendant_score(b), the scores being the fee rates
\* of the entries with their descendants
lower_descendant_score(store, a, b) ==
    fees_with_descendants(store, a) * size_with_descendants(store, b)
        < fees_with_descendants(store, b) * size_with_descendants(store, a)

\* txs_by_descendant_score.values().flatten().next(): the lowest score, and
\* the lowest id among equal scores
first_by_descendant_score(store) ==
    CHOOSE a \in DOMAIN store :
        \A b \in DOMAIN store \ {a} :
            \/ lower_descendant_score(store, a, b)
            \/ ~lower_descendant_score(store, b, a) /\ a < b

\* TxMempoolEntry::unconfirmed_ancestors_from_parents
unconfirmed_ancestors_from_parents(parents, store) ==
    parents \cup UNION {store[p].ancestors : p \in parents}

\* Mempool::create_entry
create_entry(store, t, creation_time) ==
    LET parents == {source_tx(o) : o \in inputs_of(t)} \cap DOMAIN store IN
    [tx_id |-> t, fee |-> tx_fee(t), size |-> tx_size(t),
     creation_time |-> creation_time,
     parents |-> parents,
     ancestors |-> unconfirmed_ancestors_from_parents(parents, store),
     descendants |-> {}]

\* MempoolStore::add_tx: the entry enters the indices and becomes a
\* descendant of each of its ancestors
add_tx(store, entry) ==
    [t \in DOMAIN store \cup {entry.tx_id} |->
        IF t = entry.tx_id THEN entry
        ELSE IF t \in entry.ancestors
            THEN [store[t] EXCEPT !.descendants = @ \cup {entry.tx_id}]
            ELSE store[t]]

\* MempoolStore::drop_tx_and_descendants
drop_tx_and_descendants(store, id) ==
    IF ~contains_key(store, id) THEN store
    ELSE LET gone == {id} \cup store[id].descendants IN
         [t \in DOMAIN store \ gone |->
            [store[t] EXCEPT !.descendants = @ \ gone]]

\* ancestor_score(a) < ancestor_score(b), the scores being the fee rates of
\* the entries with their ancestors
lower_ancestor_score(store, a, b) ==
    sum_fees(store, {a} \cup store[a].ancestors)
            * sum_sizes(store, {b} \cup store[b].ancestors)
        < sum_fees(store, {b} \cup store[b].ancestors)
            * sum_sizes(store, {a} \cup store[a].ancestors)

\* txs_by_ancestor_score.values().flatten().rev() over the entries ids: the
\* highest score first, and the highest id first among equal scores
RECURSIVE by_ancestor_score_rev(_, _)
by_ancestor_score_rev(store, ids) ==
    IF ids = {} THEN <<>>
    ELSE LET next == CHOOSE a \in ids :
                        \A b \in ids \ {a} :
                            \/ lower_ancestor_score(store, b, a)
                            \/ ~lower_ancestor_score(store, a, b) /\ a > b
         IN  <<next>> \o by_ancestor_score_rev(store, ids \ {next})

\* Mempool::collect_txs with an accumulator that is done after room
\* transactions: the transactions handed to it, in order
collect_txs(store, room) ==
    LET tx_iter == by_ancestor_score_rev(store, DOMAIN store) IN
    SubSeq(tx_iter, 1, IF room < Len(tx_iter) THEN room ELSE Len(tx_iter))

\* MempoolStore::find_conflicting_tx, for every input of the candidate
conflicting_tx_ids(store, t) ==
    {c \in DOMAIN store : inputs_of(c) \cap inputs_of(t) # {}}

----------------------------------------------------------------------------
(* The mempool: validation, finalization, expiry, eviction, the rolling fee. *)

EmptyPoolCache == [o \in PoolOutPoints |-> AbsentEntry]

\* RollingFeeRate::new(clock.get_time())
NewRollingFeeRate(now) ==
    [rolling_minimum_fee_rate |-> 0,
     block_since_last_rolling_fee_bump |-> FALSE,
     last_rolling_fee_update |-> now]

\* Mempool::new, and the mempool after reset(): an empty store and a fresh
\* verifier over the chainstate
NewMempool(chainstate, rolling) ==
    [store |-> EmptyPoolStore,
     tx_verifier |-> EmptyPoolCache,
     best_block |-> chainstate.tip,
     rolling_fee_rate |-> rolling]

\* the inputs of a candidate spent, in order, in the newest of the layers
RECURSIVE spend_candidate_inputs(_, _, _, _)
spend_candidate_inputs(storage, layers, inputs, i) ==
    IF i > Len(inputs) THEN [ok |-> TRUE, layers |-> layers]
    ELSE IF ~spend_utxo_ok(storage, layers, Len(layers), inputs[i])
        THEN [ok |-> FALSE, layers |-> layers]
    ELSE spend_candidate_inputs(
            storage, spend_utxo(layers, Len(layers), inputs[i]), inputs, i + 1)

\* Mempool::verify_transaction with the tip at rest: connect_transaction in a
\* child of the mempool's verifier, and the child consumed
verify_transaction(m, chainstate, t) ==
    LET derived == <<m.tx_verifier, EmptyPoolCache>>
        spent == spend_candidate_inputs(chainstate.utxos, derived, tx_inputs(t), 1)
        created_ok == add_utxo_ok(chainstate.utxos, spent.layers, 2, output_of(t), FALSE)
        created == add_utxo(chainstate.utxos, spent.layers, 2, output_of(t), 1)
    IN  IF spent.ok /\ created_ok
            THEN [ok |-> TRUE, delta |-> created[2]]
            ELSE [ok |-> FALSE, delta |-> EmptyPoolCache]

\* tx_verifier::flush_to_storage(&mut self.tx_verifier, delta)
RECURSIVE flush_delta_from(_, _, _)
flush_delta_from(verifier, delta, k) ==
    IF k > NumConfirmed + NumTxs THEN [ok |-> TRUE, to |-> verifier]
    ELSE IF ~merge_entry_ok(verifier[k], delta[k])
        THEN [ok |-> FALSE, to |-> verifier]
    ELSE flush_delta_from(
            [verifier EXCEPT ![k] = merge_entry(verifier[k], delta[k])], delta, k + 1)

flush_to_storage(verifier, delta) == flush_delta_from(verifier, delta, 1)

\* Mempool::rolling_fee_halflife
rolling_fee_halflife(m) ==
    LET mem_usage == get_memory_usage(m.store) IN
    IF mem_usage < MAX_MEMPOOL_SIZE_BYTES \div 4 THEN ROLLING_FEE_BASE_HALFLIFE \div 4
    ELSE IF mem_usage < MAX_MEMPOOL_SIZE_BYTES \div 2 THEN ROLLING_FEE_BASE_HALFLIFE \div 2
    ELSE ROLLING_FEE_BASE_HALFLIFE

RECURSIVE halved(_, _)
halved(rate, times) == IF times = 0 THEN rate ELSE halved(rate \div 2, times - 1)

\* RollingFeeRate::decay_fee(halflife, time): the rate halves with every
\* halflife gone since the last update
decay_fee(rolling, halflife, time) ==
    [rolling EXCEPT
        !.rolling_minimum_fee_rate =
            halved(@, (time - rolling.last_rolling_fee_update) \div halflife),
        !.last_rolling_fee_update = time]

\* a query that never decays the rate
get_update_min_fee_rate_no_decay(m, now) ==
    LET rolling == m.rolling_fee_rate
        max_of(a, b) == IF a > b THEN a ELSE b
    IN  IF \/ ~rolling.block_since_last_rolling_fee_bump
           \/ rolling.rolling_minimum_fee_rate = 0
            THEN [rate |-> rolling.rolling_minimum_fee_rate, rolling |-> rolling]
        ELSE [rate |-> max_of(rolling.rolling_minimum_fee_rate,
                              INCREMENTAL_RELAY_FEE_RATE),
              rolling |-> rolling]

\* Mempool::get_update_min_fee_rate: the rate asked of a candidate, and the
\* rolling fee rate it leaves behind
get_update_min_fee_rate(m, now) ==
    LET rolling == m.rolling_fee_rate
        decayed == decay_fee(rolling, rolling_fee_halflife(m), now)
        dropped == [decayed EXCEPT !.rolling_minimum_fee_rate = 0]
        max_of(a, b) == IF a > b THEN a ELSE b
    IN  IF \/ ~rolling.block_since_last_rolling_fee_bump
           \/ rolling.rolling_minimum_fee_rate = 0
            THEN [rate |-> rolling.rolling_minimum_fee_rate, rolling |-> rolling]
        ELSE IF now > rolling.last_rolling_fee_update + ROLLING_FEE_DECAY_INTERVAL
            THEN IF decayed.rolling_minimum_fee_rate < INCREMENTAL_RELAY_THRESHOLD
                    THEN [rate |-> 0, rolling |-> dropped]
                    ELSE [rate |-> max_of(decayed.rolling_minimum_fee_rate,
                                          INCREMENTAL_RELAY_FEE_RATE),
                          rolling |-> decayed]
        ELSE [rate |-> max_of(rolling.rolling_minimum_fee_rate,
                              INCREMENTAL_RELAY_FEE_RATE),
              rolling |-> rolling]

\* a policy check that lets conflicting candidates through
check_mempool_policy_no_conflicts(m, t, now) ==
    LET min == get_update_min_fee_rate(m, now) IN
    IF tx_fee(t) < tx_size(t) * RELAY_FEE_PER_BYTE
        THEN [err |-> "InsufficientFeesToRelay", rolling |-> m.rolling_fee_rate]
    ELSE IF tx_fee(t) < min.rate * tx_size(t)
        THEN [err |-> "RollingFeeThresholdNotMet", rolling |-> min.rolling]
    ELSE [err |-> "", rolling |-> min.rolling]

\* Mempool::check_mempool_policy with ENABLE_RBF off: "" if the candidate
\* passes, else the error; the rolling fee rate is updated on the way
check_mempool_policy(m, t, now) ==
    LET min == get_update_min_fee_rate(m, now) IN
    IF tx_fee(t) < tx_size(t) * RELAY_FEE_PER_BYTE
        THEN [err |-> "InsufficientFeesToRelay", rolling |-> m.rolling_fee_rate]
    ELSE IF tx_fee(t) < min.rate * tx_size(t)
        THEN [err |-> "RollingFeeThresholdNotMet", rolling |-> min.rolling]
    ELSE IF conflicting_tx_ids(m.store, t) # {}
        THEN [err |-> "ConflictWithIrreplaceableTransaction", rolling |-> min.rolling]
    ELSE [err |-> "", rolling |-> min.rolling]

\* BIP125 signalling of an entry; candidate 4 does not signal
is_replaceable(store, id) == id # 4

\* Mempool::pays_more_than_direct_conflicts
pays_more_than_direct_conflicts(store, t, conflicts) ==
    IF \E c \in conflicts : store[c].fee >= tx_fee(t)
        THEN "ReplacementFeeLowerThanOriginal" ELSE ""

\* Mempool::spends_no_new_unconfirmed_outputs
spends_no_new_unconfirmed_outputs(store, t, conflicts) ==
    LET outpoints_spent_by_conflicts == UNION {inputs_of(c) : c \in conflicts} IN
    IF \E o \in inputs_of(t) :
            /\ contains_key(store, source_tx(o))
            /\ o \notin outpoints_spent_by_conflicts
        THEN "SpendsNewUnconfirmedOutput" ELSE ""

\* Mempool::potential_replacements_within_limit: the counts of the
\* conflicts with their descendants are added up, then the ids collected
potential_replacements_within_limit(store, conflicts) ==
    IF sum_sizes([c \in conflicts |->
                     [size |-> 1 + Cardinality(store[c].descendants)]],
                 conflicts) > MAX_BIP125_REPLACEMENT_CANDIDATES
        THEN [err |-> "TooManyPotentialReplacements", ids |-> {}]
        ELSE [err |-> "",
              ids |-> conflicts \cup UNION {store[c].descendants : c \in conflicts}]

\* a rule 3 that is not enforced and reports no conflict fees
pays_more_than_conflicts_with_descendants_unchecked(store, t, ids) ==
    [err |-> "", total_conflict_fees |-> 0]

\* Mempool::pays_more_than_conflicts_with_descendants
pays_more_than_conflicts_with_descendants(store, t, ids) ==
    LET total_conflict_fees == sum_fees(store, ids) IN
    IF tx_fee(t) > total_conflict_fees
        THEN [err |-> "", total_conflict_fees |-> total_conflict_fees]
        ELSE [err |-> "TransactionFeeLowerThanConflictsWithDescendants",
              total_conflict_fees |-> total_conflict_fees]

\* Mempool::pays_for_bandwidth
pays_for_bandwidth(t, total_conflict_fees) ==
    IF tx_fee(t) < total_conflict_fees THEN "AdditionalFeesUnderflow"
    ELSE IF tx_fee(t) - total_conflict_fees < tx_size(t) * RELAY_FEE_PER_BYTE
        THEN "InsufficientFeesToRelayRBF"
    ELSE ""

\* Mempool::do_rbf_checks
do_rbf_checks(store, t, conflicts) ==
    LET within == potential_replacements_within_limit(store, conflicts)
        pays == pays_more_than_conflicts_with_descendants(store, t, within.ids)
        Err(e) == [err |-> e, conflicts |-> {}]
    IN  IF \E c \in conflicts : ~is_replaceable(store, c)
            THEN Err("ConflictWithIrreplaceableTransaction")
        ELSE IF pays_more_than_direct_conflicts(store, t, conflicts) # ""
            THEN Err(pays_more_than_direct_conflicts(store, t, conflicts))
        ELSE IF spends_no_new_unconfirmed_outputs(store, t, conflicts) # ""
            THEN Err(spends_no_new_unconfirmed_outputs(store, t, conflicts))
        ELSE IF within.err # "" THEN Err(within.err)
        ELSE IF pays.err # "" THEN Err(pays.err)
        ELSE IF pays_for_bandwidth(t, pays.total_conflict_fees) # ""
            THEN Err(pays_for_bandwidth(t, pays.total_conflict_fees))
        ELSE [err |-> "", conflicts |-> within.ids]

\* Mempool::rbf_checks
rbf_checks(store, t) ==
    IF conflicting_tx_ids(store, t) = {}
        THEN [err |-> "", conflicts |-> {}]
        ELSE do_rbf_checks(store, t, conflicting_tx_ids(store, t))

\* Mempool::remove_expired_transactions
expired_ids(store, now) ==
    {t \in DOMAIN store : now - store[t].creation_time > DEFAULT_MEMPOOL_EXPIRY}

RECURSIVE drop_all(_, _)
drop_all(store, ids) ==
    IF ids = {} THEN store
    ELSE LET t == CHOOSE x \in ids : \A y \in ids : x <= y IN
         drop_all(drop_tx_and_descendants(store, t), ids \ {t})

\* an expiry that leaves the descendants of the expired entries in the store
remove_expired_transactions_alone(store, now) ==
    [t \in DOMAIN store \ expired_ids(store, now) |-> store[t]]

remove_expired_transactions(store, now) == drop_all(store, expired_ids(store, now))

\* Mempool::trim: the entries picked, in order, their fee rates, and the
\* store left
RECURSIVE trim(_, _, _)
trim(store, picked, removed_fees) ==
    IF DOMAIN store = {} \/ get_memory_usage(store) <= MAX_MEMPOOL_SIZE_BYTES
        THEN [store |-> store, picked |-> picked, removed_fees |-> removed_fees]
    ELSE LET removed == first_by_descendant_score(store) IN
         trim(drop_tx_and_descendants(store, removed),
              Append(picked, removed),
              Append(removed_fees, store[removed].fee \div store[removed].size))

RECURSIVE max_rate(_, _)
max_rate(rates, i) ==
    IF i > Len(rates) THEN 0
    ELSE LET rest == max_rate(rates, i + 1) IN
         IF rates[i] > rest THEN rates[i] ELSE rest

\* an update that leaves the rate as it was
update_min_fee_rate_keeps_rate(rolling, rate) ==
    [rolling EXCEPT !.block_since_last_rolling_fee_bump = FALSE]

\* Mempool::update_min_fee_rate
update_min_fee_rate(rolling, rate) ==
    [rolling EXCEPT !.rolling_minimum_fee_rate = rate,
                    !.block_since_last_rolling_fee_bump = FALSE]

\* a new minimum that is the highest removed rate itself
new_minimum_fee_rate_no_increment(removed_fees) ==
    max_rate(removed_fees, 1)

\* limit_mempool_size's new_minimum_fee_rate
new_minimum_fee_rate(removed_fees) ==
    max_rate(removed_fees, 1) + INCREMENTAL_RELAY_FEE_RATE

\* a limit that evicts nothing
limit_mempool_size_untrimmed(store, rolling) ==
    [store |-> store, picked |-> <<>>, rolling |-> rolling]

\* Mempool::limit_mempool_size
limit_mempool_size(store, rolling) ==
    LET trimmed == trim(store, <<>>, <<>>) IN
    [store |-> trimmed.store,
     picked |-> trimmed.picked,
     rolling |->
        IF /\ trimmed.removed_fees # <<>>
           /\ new_minimum_fee_rate(trimmed.removed_fees) > rolling.rolling_minimum_fee_rate
            THEN update_min_fee_rate(rolling, new_minimum_fee_rate(trimmed.removed_fees))
            ELSE rolling]

\* a finalize_tx that reports success whatever became of the transaction
finalize_tx_unchecked(m, t, creation_time, now) ==
    LET added == add_tx(m.store, create_entry(m.store, t, creation_time))
        kept == remove_expired_transactions(added, now)
        limited == limit_mempool_size(kept, m.rolling_fee_rate)
    IN  [err |-> "",
         m |-> [m EXCEPT !.store = limited.store,
                         !.rolling_fee_rate = limited.rolling],
         expired |-> DOMAIN added \ DOMAIN kept,
         picked |-> limited.picked, trimmed |-> TRUE,
         rate_before |-> m.rolling_fee_rate.rolling_minimum_fee_rate]

\* Mempool::finalize_tx
finalize_tx(m, t, creation_time, now) ==
    LET added == add_tx(m.store, create_entry(m.store, t, creation_time))
        kept == remove_expired_transactions(added, now)
        limited == limit_mempool_size(kept, m.rolling_fee_rate)
    IN  IF ~contains_key(kept, t)
            THEN [err |-> "DescendantOfExpiredTransaction",
                  m |-> [m EXCEPT !.store = kept],
                  expired |-> DOMAIN added \ DOMAIN kept,
                  picked |-> <<>>, trimmed |-> FALSE,
                  rate_before |-> m.rolling_fee_rate.rolling_minimum_fee_rate]
        ELSE [err |-> IF contains_key(limited.store, t) THEN "" ELSE "MempoolFull",
              m |-> [m EXCEPT !.store = limited.store,
                              !.rolling_fee_rate = limited.rolling],
              expired |-> DOMAIN added \ DOMAIN kept,
              picked |-> limited.picked, trimmed |-> TRUE,
              rate_before |-> m.rolling_fee_rate.rolling_minimum_fee_rate]

\* what add_transaction_entry returns with the mempool it leaves behind
Rejected(err, m) ==
    [err |-> err, m |-> m, expired |-> {}, picked |-> <<>>, trimmed |-> FALSE,
     rate_before |-> m.rolling_fee_rate.rolling_minimum_fee_rate]

\* Mempool::add_transaction_entry: validate_transaction (the preliminary
\* policy, verify_transaction, the mempool policy), the flush of the delta
\* into the mempool's verifier, finalize_tx
add_transaction_entry(m, chainstate, t, creation_time, now) ==
    LET verified == verify_transaction(m, chainstate, t)
        policy == check_mempool_policy(m, t, now)
        checked == [m EXCEPT !.rolling_fee_rate = policy.rolling]
        flushed == flush_to_storage(m.tx_verifier, verified.delta)
    IN  IF tx_inputs(t) = <<>> THEN Rejected("NoInputs", m)
        ELSE IF contains_key(m.store, t)
            THEN Rejected("TransactionAlreadyInMempool", m)
        ELSE IF ~verified.ok THEN Rejected("TxValidationError", m)
        ELSE IF policy.err # "" THEN Rejected(policy.err, checked)
        ELSE IF ~flushed.ok THEN Rejected("FlushError", checked)
        ELSE finalize_tx([checked EXCEPT !.tx_verifier = flushed.to],
                         t, creation_time, now)

----------------------------------------------------------------------------
(* Runs of the mempool: candidates are submitted, the clock advances, the   *)
(* chainstate connects blocks and the mempool processes its NewTip events.  *)

NoPoolCall ==
    [op |-> "none", tx |-> 0, err |-> "", expired |-> {}, picked |-> <<>>,
     trimmed |-> FALSE, rate_before |-> 0, collected |-> <<>>,
     conflicts |-> {},
     before |-> NewMempool([tip |-> 0], NewRollingFeeRate(0))]

PoolIdle ==
    /\ pool_chain = [tip |-> 0, utxos |-> [o \in PoolOutPoints |-> None],
                     history |-> <<<<>>>>]
    /\ pool_mempool = NewMempool([tip |-> 0], NewRollingFeeRate(0))
    /\ pool_clock = 0
    /\ pool_last = NoPoolCall

\* Mempool::new over a chainstate holding the confirmed outpoints
PoolInit ==
    /\ pool_chain = [tip |-> 0,
                     utxos |-> [o \in PoolOutPoints |->
                                    IF o <= NumConfirmed THEN Some(1) ELSE None],
                     history |-> <<<<>>>>]
    /\ pool_mempool = NewMempool([tip |-> 0], NewRollingFeeRate(0))
    /\ pool_clock = 0
    /\ pool_last = NoPoolCall

\* Mempool::add_transaction(tx)
AddTransaction(t) ==
    /\ LET r == add_transaction_entry(pool_mempool, pool_chain, t,
                                      pool_clock, pool_clock)
       IN
        /\ pool_mempool' = r.m
        /\ pool_last' = [op |-> "add", tx |-> t, err |-> r.err,
                         expired |-> r.expired, picked |-> r.picked,
                         trimmed |-> r.trimmed, rate_before |-> r.rate_before,
                         collected |-> <<>>, conflicts |-> {},
                         before |-> pool_mempool]
    /\ UNCHANGED <<pool_chain, pool_clock>>
    /\ UNCHANGED otherThanPool

\* check_mempool_policy's branch for ENABLE_RBF, on a candidate the store
\* does not hold: the conflicts a replacement would remove, or the rule it
\* breaks
RbfChecks(t) ==
    /\ ~contains_key(pool_mempool.store, t)
    /\ LET r == rbf_checks(pool_mempool.store, t) IN
        pool_last' = [NoPoolCall EXCEPT !.op = "rbf_checks", !.tx = t,
                                        !.err = r.err,
                                        !.conflicts = r.conflicts,
                                        !.before = pool_mempool]
    /\ UNCHANGED <<pool_chain, pool_mempool, pool_clock>>
    /\ UNCHANGED otherThanPool

\* time passes
Tick ==
    /\ pool_clock < MaxTime
    /\ pool_clock' = pool_clock + 1
    /\ pool_last' = [NoPoolCall EXCEPT !.op = "tick"]
    /\ UNCHANGED <<pool_chain, pool_mempool>>
    /\ UNCHANGED otherThanPool

\* the candidate that a block connected over the tip may hold; the blocks
\* of a winning branch hold the candidate 3 or nothing
BlockTxs == {1}

\* the transactions of the blocks of the best chain, oldest first, as they
\* were when the tip was tip
best_chain(chainstate, tip) == chainstate.history[tip + 1]

\* the utxo set after a block holding the transaction t is connected
connect_block_utxos(utxos, t) ==
    [o \in PoolOutPoints |->
        IF o \in inputs_of(t) THEN None
        ELSE IF o = output_of(t) THEN Some(1)
        ELSE utxos[o]]

\* the utxo set after a block holding the transaction t is disconnected
disconnect_block_utxos(utxos, t) ==
    [o \in PoolOutPoints |->
        IF o \in inputs_of(t) THEN Some(1)
        ELSE IF o = output_of(t) THEN None
        ELSE utxos[o]]

\* the chainstate connects a block holding the transaction t
NewBlock(t) ==
    /\ pool_chain.tip < MaxPoolBlocks
    /\ \A o \in inputs_of(t) : pool_chain.utxos[o] # None
    /\ pool_chain.utxos[output_of(t)] = None
    /\ pool_chain' =
        [tip |-> pool_chain.tip + 1,
         utxos |-> connect_block_utxos(pool_chain.utxos, t),
         history |-> Append(pool_chain.history,
                            Append(best_chain(pool_chain, pool_chain.tip), t))]
    /\ pool_last' = [NoPoolCall EXCEPT !.op = "block", !.tx = t]
    /\ UNCHANGED <<pool_mempool, pool_clock>>
    /\ UNCHANGED otherThanPool

\* the chainstate switches to a branch that leaves out the last block of
\* the best chain: the block is disconnected and, if t is a transaction, a
\* block holding t is connected in its place (if t is 0, the blocks of the
\* winning branch hold no transactions)
Reorg(t) ==
    LET blocks == best_chain(pool_chain, pool_chain.tip)
        kept == SubSeq(blocks, 1, Len(blocks) - 1)
        undone == disconnect_block_utxos(pool_chain.utxos, blocks[Len(blocks)])
    IN
    /\ pool_chain.tip < MaxPoolBlocks
    /\ blocks # <<>>
    /\ t # blocks[Len(blocks)]
    /\ t # 0 => /\ \A o \in inputs_of(t) : undone[o] # None
                /\ undone[output_of(t)] = None
    /\ pool_chain' =
        [tip |-> pool_chain.tip + 1,
         utxos |-> IF t = 0 THEN undone ELSE connect_block_utxos(undone, t),
         history |-> Append(pool_chain.history,
                            IF t = 0 THEN kept ELSE Append(kept, t))]
    /\ pool_last' = [NoPoolCall EXCEPT !.op = "reorg", !.tx = t]
    /\ UNCHANGED <<pool_mempool, pool_clock>>
    /\ UNCHANGED otherThanPool

\* the transactions of the store before a reset entering the mempool again,
\* parents before children
RECURSIVE readd_transactions(_, _, _, _, _)
readd_transactions(m, chainstate, old_store, ids, now) ==
    IF ids = {} THEN m
    ELSE LET t == CHOOSE x \in ids : \A y \in ids : x <= y IN
         readd_transactions(
            add_transaction_entry(m, chainstate, t, old_store[t].creation_time, now).m,
            chainstate, old_store, ids \ {t}, now)

\* the transactions of the blocks that were on the best chain at the tip old
\* and are not on it at the tip now, oldest first
RECURSIVE disconnected_txs(_, _, _)
disconnected_txs(old, now, i) ==
    IF i > Len(old) THEN <<>>
    ELSE IF i <= Len(now) /\ old[i] = now[i] THEN disconnected_txs(old, now, i + 1)
    ELSE SubSeq(old, i, Len(old))

\* the transactions of disconnected blocks submitted as new transactions
RECURSIVE insert_disconnected(_, _, _, _, _)
insert_disconnected(m, chainstate, txs, i, now) ==
    IF i > Len(txs) THEN m
    ELSE insert_disconnected(
            add_transaction_entry(m, chainstate, txs[i], now, now).m,
            chainstate, txs, i + 1, now)

\* a new tip handled without a look at the blocks that were disconnected
handle_new_tip_forgets_disconnected(m, chainstate, now) ==
    readd_transactions(
        NewMempool(chainstate,
                   [m.rolling_fee_rate EXCEPT
                        !.block_since_last_rolling_fee_bump = TRUE]),
        chainstate, m.store, DOMAIN m.store, now)

\* reorg::handle_new_tip: the mempool is reset over the new tip, the
\* transactions of the disconnected blocks are submitted to it, and then the
\* transactions it held
handle_new_tip(m, chainstate, now) ==
    LET to_insert == disconnected_txs(best_chain(chainstate, m.best_block),
                                      best_chain(chainstate, chainstate.tip), 1)
        fresh == NewMempool(chainstate,
                            [m.rolling_fee_rate EXCEPT
                                !.block_since_last_rolling_fee_bump = TRUE])
    IN  readd_transactions(
            insert_disconnected(fresh, chainstate, to_insert, 1, now),
            chainstate, m.store, DOMAIN m.store \ {to_insert[i] : i \in DOMAIN to_insert}, now)

\* Mempool::process_chainstate_event(NewTip): new_tip_set
ProcessChainstateEvent ==
    /\ pool_mempool.best_block < pool_chain.tip
    /\ pool_mempool' = handle_new_tip(pool_mempool, pool_chain, pool_clock)
    /\ pool_last' = [NoPoolCall EXCEPT !.op = "new_tip", !.before = pool_mempool]
    /\ UNCHANGED <<pool_chain, pool_clock>>
    /\ UNCHANGED otherThanPool

\* Mempool::collect_txs(tx_accumulator)
CollectTxs(room) ==
    /\ pool_last' = [NoPoolCall EXCEPT !.op = "collect", !.before = pool_mempool,
                                       !.collected = collect_txs(pool_mempool.store, room)]
    /\ UNCHANGED <<pool_chain, pool_mempool, pool_clock>>
    /\ UNCHANGED otherThanPool

PoolNext ==
    \/ \E t \in TxIds : AddTransaction(t)
    \/ \E room \in {1, NumTxs} : CollectTxs(room)
    \/ Tick
    \/ \E t \in BlockTxs : NewBlock(t)
    \/ \E t \in {0, 3} : Reorg(t)
    \/ ProcessChainstateEvent

----------------------------------------------------------------------------
(* Specifications *)

(* The chainstate processing blocks: consensus check, then the reward *)
(* and the transactions connected in order in a verifier                *)

\* OutputTimeLock::UntilHeight(h), OutputTimeLock::ForBlockCount(n)
UntilHeight(h) == [kind |-> "UntilHeight", value |-> h]
ForBlockCount(n) == [kind |-> "ForBlockCount", value |-> n]
TimeLocks == {UntilHeight(1), UntilHeight(3), ForBlockCount(0), ForBlockCount(2)}

PoolIds == 1..NumPools

\* a transaction with a LockThenTransfer output, and one spending it
CreateLocked(lock) == [kind |-> "create", lock |-> lock]
SpendLocked == [kind |-> "spend", lock |-> UntilHeight(0)]

\* the transactions of a block: none, one creating the locked output, one
\* spending it, or the one creating it followed by the one spending it
BlockBodies ==
    {<<>>, <<SpendLocked>>}
        \cup {<<CreateLocked(l)>> : l \in TimeLocks}
        \cup {<<CreateLocked(l), SpendLocked>> : l \in TimeLocks}

\* ConsensusData::None, and ConsensusData::PoS with the pool of the kernel
\* input, the pool the reward's ProduceBlockFromStake names, and whether
\* the kernel, the VRF proof and the target hold
NoConsensus == [kind |-> "None", kernel_pool |-> 1, reward_pool |-> 1,
                kernel_ok |-> TRUE]
PoSConsensus(kernel_pool, reward_pool, kernel_ok) ==
    [kind |-> "PoS", kernel_pool |-> kernel_pool, reward_pool |-> reward_pool,
     kernel_ok |-> kernel_ok]
ConsensusChoices ==
    {NoConsensus}
        \cup {PoSConsensus(k, r, ok) : k \in PoolIds, r \in PoolIds,
                                        ok \in BOOLEAN}

BlockOk == <<"Ok">>
TimeLockViolation == <<"TimeLockViolation">>
MissingOutputOrSpent == <<"MissingOutputOrSpent">>
PoSBlockTimeStrictOrderInvalid == <<"PoSBlockTimeStrictOrderInvalid">>
KernelVerificationFailed == <<"ConsensusVerificationFailed">>
StakePoolIdMismatch(kernel_pool, reward_pool) ==
    <<"StakePoolIdMismatch", kernel_pool, reward_pool>>

NoLockedOutput == [st |-> "none", created |-> 0, lock |-> UntilHeight(0)]

\* a lock that opens one block late
past_lock_one_block_late(lock, created, spend_height) ==
    IF lock.kind = "UntilHeight"
        THEN spend_height > lock.value
        ELSE spend_height > created + lock.value

\* the chain is past the lock: its height has reached the declared height,
\* or the declared count of blocks lies between the creating block and it
past_lock(lock, created, spend_height) ==
    IF lock.kind = "UntilHeight"
        THEN spend_height >= lock.value
        ELSE spend_height >= created + lock.value

\* a check that lets the creating block spend a lock the chain is past
check_timelock_in_creating_block(output, spend_height) ==
    IF past_lock(output.lock, output.created, spend_height)
        THEN BlockOk ELSE TimeLockViolation

\* the timelock check on an input spending a LockThenTransfer output: the
\* block that creates the output never spends it
check_timelock(output, spend_height) ==
    IF output.created = spend_height THEN TimeLockViolation
    ELSE IF past_lock(output.lock, output.created, spend_height) THEN BlockOk
    ELSE TimeLockViolation

\* connect the transactions of a block in order, in a verifier over the
\* parent's state; the first error ends it
RECURSIVE connect_transactions(_, _, _, _)
connect_transactions(locked, txs, i, height) ==
    IF i > Len(txs) THEN [err |-> BlockOk, locked |-> locked]
    ELSE IF txs[i].kind = "create"
        THEN connect_transactions(
                 [st |-> "unspent", created |-> height, lock |-> txs[i].lock],
                 txs, i + 1, height)
    ELSE IF locked.st # "unspent"
        THEN [err |-> MissingOutputOrSpent, locked |-> locked]
    ELSE IF check_timelock(locked, height) # BlockOk
        THEN [err |-> check_timelock(locked, height), locked |-> locked]
    ELSE connect_transactions([locked EXCEPT !.st = "spent"], txs, i + 1,
                              height)

\* a timestamp check that the parent's own timestamp passes
check_block_time_order_not_strict(consensus, timestamp, parent_time) ==
    IF consensus.kind = "PoS" /\ timestamp < parent_time
        THEN PoSBlockTimeStrictOrderInvalid ELSE BlockOk

\* the timestamp of a PoS block is greater than its parent's
check_block_time_order(consensus, timestamp, parent_time) ==
    IF consensus.kind = "PoS" /\ timestamp <= parent_time
        THEN PoSBlockTimeStrictOrderInvalid ELSE BlockOk

\* the consensus check of a PoS block: the timestamp is checked first, then
\* the kernel, the VRF proof and the target
check_consensus(block, parent_time) ==
    IF check_block_time_order(block.consensus, block.timestamp, parent_time)
            # BlockOk
        THEN check_block_time_order(block.consensus, block.timestamp,
                                    parent_time)
    ELSE IF block.consensus.kind = "PoS" /\ ~block.consensus.kernel_ok
        THEN KernelVerificationFailed
    ELSE BlockOk

\* a reward connected whatever pool it names
connect_block_reward_any_pool(consensus) == BlockOk

\* connecting the reward of a PoS block: the ProduceBlockFromStake output
\* names the pool of the kernel input
connect_block_reward(consensus) ==
    IF consensus.kind = "PoS" /\ consensus.kernel_pool # consensus.reward_pool
        THEN StakePoolIdMismatch(consensus.kernel_pool, consensus.reward_pool)
        ELSE BlockOk

\* process_block on the best block: the consensus check, then the reward
\* and the transactions in a verifier; a failure leaves the chainstate as
\* it was, a success makes the block the best block
process_block(best, locked, block) ==
    LET height == best.height + 1
        connected == connect_transactions(locked, block.txs, 1, height)
        err == IF check_consensus(block, best.timestamp) # BlockOk
                   THEN check_consensus(block, best.timestamp)
               ELSE IF connect_block_reward(block.consensus) # BlockOk
                   THEN connect_block_reward(block.consensus)
               ELSE connected.err
    IN  IF err # BlockOk
            THEN [err |-> err, best |-> best, locked |-> locked]
            ELSE [err |-> BlockOk,
                  best |-> [height |-> height, timestamp |-> block.timestamp],
                  locked |-> connected.locked]

NoBlock == [timestamp |-> 0, consensus |-> NoConsensus, txs |-> <<>>]
NoProcessBlock == [op |-> "none", block |-> NoBlock, err |-> BlockOk,
                   best |-> [height |-> 0, timestamp |-> 0],
                   locked |-> NoLockedOutput]

ChsIdle ==
    /\ chs_best = [height |-> 0, timestamp |-> 0]
    /\ chs_locked = NoLockedOutput
    /\ chs_last = NoProcessBlock

\* the genesis block has been processed
ChsInit == ChsIdle

\* chainstate.process_block(block, BlockSource::Local) with a block built
\* on the best block; a block creates the locked output only while the
\* chain holds none unspent
ProcessBlock(timestamp, consensus, txs) ==
    /\ chs_best.height < MaxChainBlocks
    /\ (Len(txs) > 0 /\ txs[1].kind = "create") => chs_locked.st # "unspent"
    /\ LET block == [timestamp |-> timestamp, consensus |-> consensus,
                     txs |-> txs]
           r == process_block(chs_best, chs_locked, block)
       IN  /\ chs_best' = r.best
           /\ chs_locked' = r.locked
           /\ chs_last' = [op |-> "process_block", block |-> block,
                           err |-> r.err, best |-> chs_best,
                           locked |-> chs_locked]
    /\ UNCHANGED otherThanChs

ChsNext ==
    \E timestamp \in 0..MaxBlockTime, consensus \in ConsensusChoices,
       txs \in BlockBodies :
        ProcessBlock(timestamp, consensus, txs)

----------------------------------------------------------------------------
(* Memory usage tracking: Tracker, Tracked and Guard
   (mempool/src/pool/store/mem_usage.rs) *)

\* tracked objects 1 .. NumTracked
NumTracked == 3
\* indirect_memory_usage of an object: 0 .. MaxObjectUsage
MaxObjectUsage == 2
\* usize, scaled down to 8 bits: fetch_add and fetch_sub wrap around
UsizeModulus == 256

\* Tracker::add
add(current_usage, amount) == (current_usage + amount) % UsizeModulus

\* Tracker::sub
sub(current_usage, amount) ==
    (current_usage + UsizeModulus - amount) % UsizeModulus

NoObject == [st |-> "none", usage |-> 0, orig_usage |-> 0]

\* MemoryUsage::indirect_memory_usage of the object in a slot
indirect_memory_usage(obj) == obj.usage

\* a Guard that forgets an object that shrank
guard_drop_growth_only(current_usage, orig_usage, cur_usage) ==
    IF cur_usage > orig_usage
        THEN add(current_usage, cur_usage - orig_usage)
        ELSE current_usage

\* Guard::drop: the tracker after the difference is accounted
guard_drop(current_usage, orig_usage, cur_usage) ==
    IF cur_usage = orig_usage THEN current_usage
    ELSE IF cur_usage < orig_usage
        THEN sub(current_usage, orig_usage - cur_usage)
        ELSE add(current_usage, cur_usage - orig_usage)

NoTrackerCall == [op |-> "none", obj |-> 0, before |-> 0, subtracted |-> 0]

TrkIdle ==
    /\ trk_usage = 0
    /\ trk_objects = [i \in 1..NumTracked |-> NoObject]
    /\ trk_last = NoTrackerCall

\* Tracker::new()
TrkInit == TrkIdle

\* Tracked::new(tracker, obj)
TrackedNew(i, usage) ==
    /\ trk_objects[i].st = "none"
    /\ trk_usage' = add(trk_usage, usage)
    /\ trk_objects' = [trk_objects EXCEPT
            ![i] = [st |-> "tracked", usage |-> usage, orig_usage |-> 0]]
    /\ trk_last' = [op |-> "new", obj |-> i, before |-> trk_usage,
                    subtracted |-> 0]
    /\ UNCHANGED otherThanTrk

\* Tracked::get_mut(tracker): Guard::new records the usage at the borrow
GetMut(i) ==
    /\ trk_objects[i].st = "tracked"
    /\ trk_objects' = [trk_objects EXCEPT
            ![i] = [st |-> "borrowed", usage |-> @.usage,
                    orig_usage |-> indirect_memory_usage(@)]]
    /\ trk_last' = [op |-> "get_mut", obj |-> i, before |-> trk_usage,
                    subtracted |-> 0]
    /\ UNCHANGED trk_usage
    /\ UNCHANGED otherThanTrk

\* a modification of the object through the Guard's DerefMut
Mutate(i, usage) ==
    /\ trk_objects[i].st = "borrowed"
    /\ trk_objects[i].usage # usage
    /\ trk_objects' = [trk_objects EXCEPT ![i].usage = usage]
    /\ trk_last' = [op |-> "deref_mut", obj |-> i, before |-> trk_usage,
                    subtracted |-> 0]
    /\ UNCHANGED trk_usage
    /\ UNCHANGED otherThanTrk

\* the Guard falls out of scope
GuardDrop(i) ==
    /\ trk_objects[i].st = "borrowed"
    /\ LET obj == trk_objects[i]
           cur_usage == indirect_memory_usage(obj)
       IN  /\ trk_usage' = guard_drop(trk_usage, obj.orig_usage, cur_usage)
           /\ trk_last' = [op |-> "guard_drop", obj |-> i,
                           before |-> trk_usage,
                           subtracted |-> IF cur_usage < obj.orig_usage
                                              THEN obj.orig_usage - cur_usage
                                              ELSE 0]
    /\ trk_objects' = [trk_objects EXCEPT
            ![i] = [st |-> "tracked", usage |-> @.usage, orig_usage |-> 0]]
    /\ UNCHANGED otherThanTrk

\* Tracked::release(this, tracker); the borrow checker rules out a live Guard
Release(i) ==
    /\ trk_objects[i].st = "tracked"
    /\ trk_usage' = sub(trk_usage, indirect_memory_usage(trk_objects[i]))
    /\ trk_objects' = [trk_objects EXCEPT ![i] = NoObject]
    /\ trk_last' = [op |-> "release", obj |-> i, before |-> trk_usage,
                    subtracted |-> indirect_memory_usage(trk_objects[i])]
    /\ UNCHANGED otherThanTrk

TrkNext ==
    \E i \in 1..NumTracked :
        \/ \E usage \in 0..MaxObjectUsage : TrackedNew(i, usage)
        \/ GetMut(i)
        \/ \E usage \in 0..MaxObjectUsage : Mutate(i, usage)
        \/ GuardDrop(i)
        \/ Release(i)

----------------------------------------------------------------------------
(* The wallet's key store: root keys behind the encryption state
   (wallet/storage/src/internal) *)

\* root key ids 1 .. NumRootKeys
NumRootKeys == 2
\* root key contents 1 .. NumRootKeyContents
NumRootKeyContents == 2
\* passwords 1 .. NumPasswords
NumPasswords == 2
\* KDF challenges (salts) 1 .. NumKdfChallenges
NumKdfChallenges == 2

RootKeyIds == 1..NumRootKeys
Passwords == 1..NumPasswords

\* EncryptionState
Locked == [st |-> "Locked", key |-> None]
Unlocked(key) == [st |-> "Unlocked", key |-> key]

\* the symmetric key a password and a challenge derive: different inputs
\* give different keys
password_to_sym_key(password, challenge) == <<password, challenge>>

\* MaybeEncrypted::new(value, key): the envelope of a DBRootKeys value,
\* encrypted under Some(key) or left plain under None
MaybeEncrypted(content, key) == [content |-> content, key |-> key]

\* MaybeEncrypted::try_take(key): the content, or an error when the key is
\* not the one of the envelope
try_take(value, key) ==
    IF value.key = key THEN [err |-> "", content |-> value.content]
    ELSE [err |-> "DecryptionError", content |-> 0]

\* MaybeEncrypted::try_decrypt_then_take(key) of an encrypted envelope
try_decrypt_then_take(value, key) == try_take(value, Some(key))

EmptyWalletDb ==
    [root_keys |-> [id \in RootKeyIds |-> None], kdf_challenge |-> None]

\* a check that lets every key pass
check_can_decrypt_all_root_keys_unchecked(db, encryption_key) == ""

\* check_can_decrypt_all_root_keys: the error of the first DBRootKeys value
\* the key does not decrypt
check_can_decrypt_all_root_keys(db, encryption_key) ==
    IF \A id \in RootKeyIds :
           db.root_keys[id] # None =>
               try_decrypt_then_take(db.root_keys[id][1], encryption_key).err = ""
        THEN ""
        ELSE "WalletInvalidPassword"

\* Store::transaction_ro_unlocked: the key the transaction borrows
transaction_ro_unlocked(state) ==
    IF state = Locked THEN [err |-> "WalletLocked", encryption_key |-> None]
    ELSE [err |-> "", encryption_key |-> state.key]

\* a store that opens the transaction in every state
transaction_rw_unlocked_always(state) ==
    [err |-> "", encryption_key |-> state.key]

\* Store::transaction_rw_unlocked
transaction_rw_unlocked(state) ==
    IF state = Locked THEN [err |-> "WalletLocked", encryption_key |-> None]
    ELSE [err |-> "", encryption_key |-> state.key]

\* StoreTxRoUnlocked::get_root_key
get_root_key(db, encryption_key, id) ==
    IF db.root_keys[id] = None THEN [err |-> "", value |-> None]
    ELSE LET taken == try_take(db.root_keys[id][1], encryption_key)
         IN  IF taken.err # "" THEN [err |-> "panic", value |-> None]
             ELSE [err |-> "", value |-> Some(taken.content)]

\* StoreTxRwUnlocked::set_root_key
set_root_key(db, encryption_key, id, content) ==
    [db EXCEPT !.root_keys[id] = Some(MaybeEncrypted(content, encryption_key))]

\* StoreTxRwUnlocked::encrypt_root_keys: every value taken with the
\* transaction's key and wrapped again under the new one
encrypt_root_keys(db, encryption_key, new_encryption_key) ==
    [db EXCEPT !.root_keys = [id \in RootKeyIds |->
        IF db.root_keys[id] = None THEN None
        ELSE Some(MaybeEncrypted(
                 try_take(db.root_keys[id][1], encryption_key).content,
                 new_encryption_key))]]

\* Store::unlock_private_keys: the key is derived from the password and the
\* stored challenge and must decrypt every root key
unlock_private_keys(db, state, password) ==
    IF state # Locked THEN [err |-> "WalletAlreadyUnlocked", state |-> state]
    ELSE LET key == password_to_sym_key(password, db.kdf_challenge[1])
             err == check_can_decrypt_all_root_keys(db, key)
         IN  IF err # "" THEN [err |-> err, state |-> state]
             ELSE [err |-> "", state |-> Unlocked(Some(key))]

NoWalletCall == [op |-> "none", err |-> "", id |-> 0, password |-> None,
                 value |-> None, state |-> Unlocked(None)]

WltIdle ==
    /\ wlt_db = EmptyWalletDb
    /\ wlt_state = Unlocked(None)
    /\ wlt_user = [contents |-> [id \in RootKeyIds |-> None],
                   password |-> None]
    /\ wlt_last = NoWalletCall

\* Store::new over an empty backend: nothing is encrypted
WltInit == WltIdle

\* transaction_rw_unlocked, set_root_key, commit
SetRootKey(id, content) ==
    /\ LET tx == transaction_rw_unlocked(wlt_state)
       IN  /\ wlt_db' = IF tx.err # "" THEN wlt_db
                        ELSE set_root_key(wlt_db, tx.encryption_key, id, content)
           /\ wlt_user' = IF tx.err # "" THEN wlt_user
                          ELSE [wlt_user EXCEPT !.contents[id] = Some(content)]
           /\ wlt_last' = [op |-> "set_root_key", err |-> tx.err, id |-> id,
                           password |-> None, value |-> None,
                           state |-> wlt_state]
    /\ UNCHANGED wlt_state
    /\ UNCHANGED otherThanWlt

\* transaction_ro_unlocked, get_root_key
GetRootKey(id) ==
    /\ LET tx == transaction_ro_unlocked(wlt_state)
           got == get_root_key(wlt_db, tx.encryption_key, id)
       IN  wlt_last' = [op |-> "get_root_key",
                        err |-> IF tx.err # "" THEN tx.err ELSE got.err,
                        id |-> id, password |-> None,
                        value |-> IF tx.err # "" THEN None ELSE got.value,
                        state |-> wlt_state]
    /\ UNCHANGED <<wlt_db, wlt_state, wlt_user>>
    /\ UNCHANGED otherThanWlt

\* Store::encrypt_private_keys(password): a fresh challenge, the root keys
\* wrapped under the new key, the store left unlocked with it
EncryptPrivateKeys(password, challenge) ==
    /\ LET tx == transaction_rw_unlocked(wlt_state)
           new_key == IF password = None THEN None
                      ELSE Some(password_to_sym_key(password[1], challenge))
           encrypted == encrypt_root_keys(wlt_db, tx.encryption_key, new_key)
       IN  /\ wlt_db' = IF tx.err # "" THEN wlt_db
                        ELSE IF password = None THEN encrypted
                        ELSE [encrypted EXCEPT !.kdf_challenge = Some(challenge)]
           /\ wlt_state' = IF tx.err # "" THEN wlt_state ELSE Unlocked(new_key)
           /\ wlt_user' = IF tx.err # "" THEN wlt_user
                          ELSE [wlt_user EXCEPT !.password = password]
           /\ wlt_last' = [op |-> "encrypt_private_keys", err |-> tx.err,
                           id |-> 0, password |-> password, value |-> None,
                           state |-> wlt_state]
    /\ UNCHANGED otherThanWlt

\* Store::lock_private_keys: the key in memory is dropped; a store that is
\* not encrypted cannot be locked
LockPrivateKeys ==
    /\ wlt_state' = IF wlt_state = Unlocked(None) THEN wlt_state ELSE Locked
    /\ wlt_last' = [op |-> "lock_private_keys",
                    err |-> IF wlt_state = Unlocked(None)
                                THEN "WalletLockedWithoutAPassword" ELSE "",
                    id |-> 0, password |-> None, value |-> None,
                    state |-> wlt_state]
    /\ UNCHANGED <<wlt_db, wlt_user>>
    /\ UNCHANGED otherThanWlt

\* Store::unlock_private_keys(password)
UnlockPrivateKeys(password) ==
    /\ LET r == unlock_private_keys(wlt_db, wlt_state, password)
       IN  /\ wlt_state' = r.state
           /\ wlt_last' = [op |-> "unlock_private_keys", err |-> r.err,
                           id |-> 0, password |-> Some(password),
                           value |-> None, state |-> wlt_state]
    /\ UNCHANGED <<wlt_db, wlt_user>>
    /\ UNCHANGED otherThanWlt

WltNext ==
    \/ \E id \in RootKeyIds, content \in 1..NumRootKeyContents :
            SetRootKey(id, content)
    \/ \E id \in RootKeyIds : GetRootKey(id)
    \/ \E password \in {None} \cup {Some(p) : p \in Passwords},
          challenge \in 1..NumKdfChallenges :
            EncryptPrivateKeys(password, challenge)
    \/ LockPrivateKeys
    \/ \E password \in Passwords : UnlockPrivateKeys(password)

----------------------------------------------------------------------------
(* The block sync manager and the peer tasks handling transaction
   announcements (p2p/src/sync) *)

\* peer ids 1 .. NumPeers
NumPeers == 2
\* announced transaction ids 1 .. NumAnnouncedTxs
NumAnnouncedTxs == 2
\* channels register_peer creates in one run
MaxChannels == 3
\* messages the networking backend hands to the manager in one run
MaxSyncEvents == 4
\* messages waiting in one peer's channel
MaxInbox == 2

PeerIds == 1..NumPeers
AnnouncedTxs == 1..NumAnnouncedTxs

\* a peer task: the peer it serves, whether the sender of its channel is
\* still held, the messages waiting, the announcements it has requested
\* (announced_transactions) and, for the record, every id the peer announced
NoTask == [peer |-> 0, open |-> FALSE, inbox |-> <<>>, announced |-> {}, heard |-> {}]
NewTask(peer) == [peer |-> peer, open |-> TRUE, inbox |-> <<>>, announced |-> {}, heard |-> {}]

\* a peer task that requests transactions during the initial block download
handle_transaction_announcement_during_ibd(ibd, announced, tx) ==
    IF tx \in announced
        THEN [err |-> "DuplicatedTransactionAnnouncement", request |-> FALSE,
              announced |-> announced]
        ELSE [err |-> "", request |-> TRUE, announced |-> announced \cup {tx}]

\* Peer::handle_transaction_announcement: ignored during the initial block
\* download; an id announced before is an error; otherwise the transaction
\* is requested and the id remembered
handle_transaction_announcement(ibd, announced, tx) ==
    IF ibd
        THEN [err |-> "", request |-> FALSE, announced |-> announced]
    ELSE IF tx \in announced
        THEN [err |-> "DuplicatedTransactionAnnouncement", request |-> FALSE,
              announced |-> announced]
        ELSE [err |-> "", request |-> TRUE, announced |-> announced \cup {tx}]

\* a peer task that reports no error to the peer manager
handle_result_silent(scores, peer, err) == scores

\* Peer::handle_result: an error with a ban score is sent to the peer
\* manager as AdjustPeerScore(peer, err.ban_score())
handle_result(scores, peer, err) ==
    IF err = "" THEN scores
    ELSE [scores EXCEPT ![peer] = Append(@, err)]

\* BlockSyncManager::register_peer: the new sender is inserted first; when
\* the map held one already the call returns before a task is spawned, and
\* both the sender it replaced and the new receiver are dropped
register_peer(peers, tasks, channels, peer) ==
    LET channel == channels + 1
        previous == peers[peer]
    IN  IF previous # 0
            THEN [err |-> "PeerAlreadyExists",
                  peers |-> [peers EXCEPT ![peer] = channel],
                  tasks |-> [tasks EXCEPT ![previous].open = FALSE]]
            ELSE [err |-> "",
                  peers |-> [peers EXCEPT ![peer] = channel],
                  tasks |-> [tasks EXCEPT ![channel] = NewTask(peer)]]

\* BlockSyncManager::unregister_peer: the sender is dropped, which closes
\* the channel of the peer's task
unregister_peer(peers, tasks, peer) ==
    [peers |-> [peers EXCEPT ![peer] = 0],
     tasks |-> [tasks EXCEPT ![peers[peer]].open = FALSE]]

NoSyncEvent == [op |-> "none", peer |-> 0, tx |-> 0, err |-> "", ibd |-> TRUE, channel |-> 0, broadcast |-> FALSE]

SyncIdle ==
    /\ sync_ibd = TRUE
    /\ sync_peers = [p \in PeerIds |-> 0]
    /\ sync_tasks = [c \in 1..MaxChannels |-> NoTask]
    /\ sync_env = [channels |-> 0, events |-> 0, gone |-> {}]
    /\ sync_sent = [m \in PeerIds \X AnnouncedTxs |-> 0]
    /\ sync_scores = [p \in PeerIds |-> <<>>]
    /\ sync_running = "new"
    /\ sync_last = NoSyncEvent

\* BlockSyncManager::new
SyncInit == SyncIdle

\* the start of BlockSyncManager::run: the chainstate's answer is cached
Run(is_ibd) ==
    /\ sync_running = "new"
    /\ sync_running' = "running"
    /\ sync_ibd' = is_ibd
    /\ sync_last' = [NoSyncEvent EXCEPT !.op = "run", !.ibd = sync_ibd]
    /\ UNCHANGED <<sync_peers, sync_tasks, sync_env, sync_sent, sync_scores>>
    /\ UNCHANGED otherThanSync

\* handle_new_tip: the chainstate is asked again only while the cached
\* answer is true; the header is broadcast once the download is over
HandleNewTip(chainstate_ibd) ==
    /\ sync_running = "running"
    /\ LET is_initial_block_download ==
               IF sync_ibd THEN chainstate_ibd ELSE FALSE
       IN  /\ sync_ibd' = is_initial_block_download
           /\ sync_last' = [NoSyncEvent EXCEPT
                                !.op = "new_tip", !.ibd = sync_ibd,
                                !.broadcast = ~is_initial_block_download]
    /\ UNCHANGED <<sync_peers, sync_tasks, sync_env, sync_sent, sync_scores,
                   sync_running>>
    /\ UNCHANGED otherThanSync

\* handle_peer_event(SyncingEvent::Connected): an error ends run; a peer id
\* is not used again after its peer disconnected
PeerConnected(peer) ==
    /\ sync_running = "running"
    /\ sync_env.channels < MaxChannels
    /\ peer \notin sync_env.gone
    /\ LET r == register_peer(sync_peers, sync_tasks, sync_env.channels, peer)
       IN  /\ sync_peers' = r.peers
           /\ sync_tasks' = r.tasks
           /\ sync_running' = IF r.err # "" THEN "stopped" ELSE sync_running
           /\ sync_last' = [NoSyncEvent EXCEPT
                                !.op = "register_peer", !.peer = peer,
                                !.err = r.err, !.ibd = sync_ibd,
                                !.channel = sync_peers[peer]]
    /\ sync_env' = [sync_env EXCEPT !.channels = @ + 1]
    /\ UNCHANGED <<sync_ibd, sync_sent, sync_scores>>
    /\ UNCHANGED otherThanSync

\* handle_peer_event(SyncingEvent::Disconnected); an unknown peer panics
PeerDisconnected(peer) ==
    /\ sync_running = "running"
    /\ sync_peers[peer] # 0
    /\ LET r == unregister_peer(sync_peers, sync_tasks, peer)
       IN  /\ sync_peers' = r.peers
           /\ sync_tasks' = r.tasks
    /\ sync_env' = [sync_env EXCEPT !.gone = @ \cup {peer}]
    /\ sync_last' = [NoSyncEvent EXCEPT
                        !.op = "unregister_peer", !.peer = peer,
                        !.ibd = sync_ibd, !.channel = sync_peers[peer]]
    /\ UNCHANGED <<sync_ibd, sync_sent, sync_scores, sync_running>>
    /\ UNCHANGED otherThanSync

\* handle_peer_event(SyncingEvent::Message) with NewTransaction(tx): the
\* message is sent down the peer's channel; an unknown peer panics, a
\* channel without a receiver is an error and ends run
Message(peer, tx) ==
    /\ sync_running = "running"
    /\ sync_peers[peer] # 0
    /\ sync_env.events < MaxSyncEvents
    /\ LET channel == sync_peers[peer]
           received == sync_tasks[channel].peer = peer
       IN  /\ received => Len(sync_tasks[channel].inbox) < MaxInbox
           /\ sync_tasks' = IF received
                                THEN [sync_tasks EXCEPT
                                        ![channel].inbox = Append(@, tx)]
                                ELSE sync_tasks
           /\ sync_running' = IF received THEN sync_running ELSE "stopped"
           /\ sync_last' = [NoSyncEvent EXCEPT
                                !.op = "message", !.peer = peer, !.tx = tx,
                                !.err = IF received THEN "" ELSE "ChannelClosed",
                                !.ibd = sync_ibd, !.channel = channel]
    /\ sync_env' = [sync_env EXCEPT !.events = @ + 1]
    /\ UNCHANGED <<sync_ibd, sync_peers, sync_sent, sync_scores>>
    /\ UNCHANGED otherThanSync

\* the task of a peer takes NewTransaction(tx) off its channel and handles it
HandleAnnouncement(channel) ==
    /\ sync_tasks[channel].inbox # <<>>
    /\ LET task == sync_tasks[channel]
           tx == Head(task.inbox)
           r == handle_transaction_announcement(sync_ibd, task.announced, tx)
       IN  /\ sync_tasks' = [sync_tasks EXCEPT
                                ![channel].inbox = Tail(@),
                                ![channel].announced = r.announced,
                                ![channel].heard = @ \cup {tx}]
           /\ sync_sent' = IF r.request
                               THEN [sync_sent EXCEPT ![<<task.peer, tx>>] = @ + 1]
                               ELSE sync_sent
           /\ sync_scores' = handle_result(sync_scores, task.peer, r.err)
           /\ sync_last' = [NoSyncEvent EXCEPT
                                !.op = "announcement", !.peer = task.peer,
                                !.tx = tx, !.err = r.err, !.ibd = sync_ibd,
                                !.channel = channel]
    /\ UNCHANGED <<sync_ibd, sync_peers, sync_env, sync_running>>
    /\ UNCHANGED otherThanSync

SyncNext ==
    \/ \E is_ibd \in BOOLEAN : Run(is_ibd)
    \/ \E chainstate_ibd \in BOOLEAN : HandleNewTip(chainstate_ibd)
    \/ \E peer \in PeerIds : PeerConnected(peer)
    \/ \E peer \in PeerIds : PeerDisconnected(peer)
    \/ \E peer \in PeerIds, tx \in AnnouncedTxs : Message(peer, tx)
    \/ \E channel \in 1..MaxChannels : HandleAnnouncement(channel)

InitDelta == DeltaInit /\ UtxoIdle /\ VerIdle /\ BlkIdle /\ AdmIdle /\ PoolIdle /\ ChsIdle
             /\ TrkIdle /\ WltIdle /\ SyncIdle

SpecDelta == InitDelta /\ [][DeltaNext]_vars

InitUtxo == UtxoInit /\ DeltaIdle /\ VerIdle /\ BlkIdle /\ AdmIdle /\ PoolIdle /\ ChsIdle
             /\ TrkIdle /\ WltIdle /\ SyncIdle

SpecUtxo == InitUtxo /\ [][UtxoNext]_vars

InitVerifier == VerInit /\ DeltaIdle /\ UtxoIdle /\ BlkIdle /\ AdmIdle /\ PoolIdle /\ ChsIdle
             /\ TrkIdle /\ WltIdle /\ SyncIdle

SpecVerifier == InitVerifier /\ [][VerNext]_vars

InitBlock == BlkInit /\ DeltaIdle /\ UtxoIdle /\ VerIdle /\ AdmIdle /\ PoolIdle /\ ChsIdle
             /\ TrkIdle /\ WltIdle /\ SyncIdle

SpecBlock == InitBlock /\ [][BlkNext]_vars

InitAdmit == AdmInit /\ DeltaIdle /\ UtxoIdle /\ VerIdle /\ BlkIdle /\ PoolIdle /\ ChsIdle
             /\ TrkIdle /\ WltIdle /\ SyncIdle

SpecAdmit == InitAdmit /\ [][AdmNext]_vars

InitPool == PoolInit /\ DeltaIdle /\ UtxoIdle /\ VerIdle /\ BlkIdle /\ AdmIdle /\ ChsIdle
             /\ TrkIdle /\ WltIdle /\ SyncIdle

SpecPool == InitPool /\ [][PoolNext]_vars

\* the replacement rules applied to the stores that admissions build
RbfNext ==
    \/ \E t \in TxIds : AddTransaction(t)
    \/ \E t \in TxIds \cup {NumTxs + 1} : RbfChecks(t)

SpecRbf == InitPool /\ [][RbfNext]_vars

InitChain == ChsInit /\ DeltaIdle /\ UtxoIdle /\ VerIdle /\ BlkIdle /\ AdmIdle
             /\ PoolIdle /\ TrkIdle /\ WltIdle /\ SyncIdle

SpecChain == InitChain /\ [][ChsNext]_vars

InitTracker == TrkInit /\ DeltaIdle /\ UtxoIdle /\ VerIdle /\ BlkIdle /\ AdmIdle
               /\ PoolIdle /\ ChsIdle /\ WltIdle /\ SyncIdle

SpecTracker == InitTracker /\ [][TrkNext]_vars

InitWallet == WltInit /\ DeltaIdle /\ UtxoIdle /\ VerIdle /\ BlkIdle /\ AdmIdle
              /\ PoolIdle /\ ChsIdle /\ TrkIdle /\ SyncIdle

SpecWallet == InitWallet /\ [][WltNext]_vars

InitSync == SyncInit /\ DeltaIdle /\ UtxoIdle /\ VerIdle /\ BlkIdle /\ AdmIdle
            /\ PoolIdle /\ ChsIdle /\ TrkIdle /\ WltIdle

SpecSync == InitSync /\ [][SyncNext]_vars

----------------------------------------------------------------------------
(* The cases of the delta tests; 'a', 'b', 'c', 'd' are the values 1..4 *)

\* data_delta_undo_associativity: origin, delta
UndoCases ==
    { <<None,    DataDelta_new(None,    Some(1))>>,
      <<Some(1), DataDelta_new(Some(1), None)>>,
      <<Some(1), DataDelta_new(Some(1), Some(2))>> }

\* data_delta_delta_associativity: origin, delta1, delta2, expected
DeltaDeltaCases ==
    { <<None,    DataDelta_new(None,    Some(1)), DataDelta_new(Some(1), None),    None>>,
      <<None,    DataDelta_new(None,    Some(1)), DataDelta_new(Some(1), Some(2)), Some(2)>>,
      <<Some(1), DataDelta_new(Some(1), Some(2)), DataDelta_new(Some(2), Some(3)), Some(3)>>,
      <<Some(1), DataDelta_new(Some(1), Some(2)), DataDelta_new(Some(2), None),    None>>,
      <<Some(1), DataDelta_new(Some(1), None),    DataDelta_new(None,    Some(2)), Some(2)>> }

\* data_delta_delta_delta_associativity: origin, delta1, delta2, delta3, expected
DeltaDeltaDeltaCases ==
    { <<None,    DataDelta_new(None,    Some(1)), DataDelta_new(Some(1), Some(2)),
                 DataDelta_new(Some(2), None),    None>>,
      <<None,    DataDelta_new(None,    Some(1)), DataDelta_new(Some(1), Some(2)),
                 DataDelta_new(Some(2), Some(3)), Some(3)>>,
      <<None,    DataDelta_new(None,    Some(1)), DataDelta_new(Some(1), None),
                 DataDelta_new(None,    Some(1)), Some(1)>>,
      <<Some(1), DataDelta_new(Some(1), None),    DataDelta_new(None,    Some(1)),
                 DataDelta_new(Some(1), None),    None>>,
      <<Some(1), DataDelta_new(Some(1), None),    DataDelta_new(None,    Some(1)),
                 DataDelta_new(Some(1), Some(2)), Some(2)>>,
      <<Some(1), DataDelta_new(Some(1), Some(2)), DataDelta_new(Some(2), None),
                 DataDelta_new(None,    Some(1)), Some(1)>>,
      <<Some(1), DataDelta_new(Some(1), Some(2)), DataDelta_new(Some(2), Some(3)),
                 DataDelta_new(Some(3), None),    None>>,
      <<Some(1), DataDelta_new(Some(1), Some(2)), DataDelta_new(Some(2), Some(3)),
                 DataDelta_new(Some(3), Some(4)), Some(4)>> }

\* data_delta_delta_undo_associativity: origin, delta1, delta2, expected
\* after the undo of delta2
DeltaDeltaUndoCases ==
    { <<None,    DataDelta_new(None,    Some(1)), DataDelta_new(Some(1), Some(2)), Some(1)>>,
      <<None,    DataDelta_new(None,    Some(1)), DataDelta_new(Some(1), None),    Some(1)>>,
      <<Some(1), DataDelta_new(Some(1), None),    DataDelta_new(None,    Some(1)), None>>,
      <<Some(1), DataDelta_new(Some(1), Some(2)), DataDelta_new(Some(2), None),    Some(2)>>,
      <<Some(1), DataDelta_new(Some(1), Some(2)), DataDelta_new(Some(2), Some(3)), Some(2)>> }

----------------------------------------------------------------------------
(* Properties of the delta engine *)

\* the value the chain leaves in the cell: the after of its last delta
FinalOf == IF chain = <<>> THEN origin_data ELSE chain[Len(chain)].after

\* the last delta of the chain was built from the undo of its predecessor
LastIsUndo == Len(chain) >= 2 /\ undo = None

\* C7: for every origin data and every delta whose before is that origin,
\* applying the delta and then its undo (one by one, or merged into one
\* collection first) succeeds and returns the origin data.
DeltaUndoRestoresOrigin ==
    (Len(chain) = 2 /\ LastIsUndo /\ chain[1].before = origin_data)
        => /\ ~failed
           /\ pending = <<>> => data = origin_data

\* a delta and its undo were both applied to the cell, and the delta changed it
DeltaUndoApplied ==
    /\ Len(chain) = 2 /\ LastIsUndo /\ chain[1].before = origin_data
    /\ <<origin_data, chain[1]>> \in UndoCases
    /\ pending = <<>> /\ ~failed /\ data = origin_data

\* C8: for every origin data and every valid chain of two deltas, applying
\* them one after the other and applying their merge once both succeed and
\* leave the same data in the cell.
DeltaAssociativity2 ==
    /\ (Len(chain) = 2 /\ ValidChain)
        => /\ ~failed
           /\ pending = <<>> => data = FinalOf
    /\ \A c \in DeltaDeltaCases :
        (origin_data = c[1] /\ chain = <<c[2], c[3]>>)
            => /\ ~failed
               /\ pending = <<>> => data = c[4]

\* a valid chain of two deltas was merged and the merge applied to the cell
DeltaMergedPairApplied ==
    /\ Len(chain) = 2 /\ ValidChain /\ ~LastIsUndo
    /\ lastMerge.done /\ pending = <<>> /\ ~failed
    /\ data # origin_data

\* C9: for every origin data and every valid chain of three deltas, every
\* order of applying and merging (one by one; the first two merged; the last
\* two merged; all three merged) succeeds and leaves the same data in the
\* cell, also when the last delta is the undo of its predecessor.
DeltaAssociativity3 ==
    /\ (Len(chain) = 3 /\ ValidChain)
        => /\ ~failed
           /\ pending = <<>> => data = FinalOf
    /\ \A c \in DeltaDeltaDeltaCases :
        (origin_data = c[1] /\ chain = <<c[2], c[3], c[4]>>)
            => /\ ~failed
               /\ pending = <<>> => data = c[5]
    /\ \A c \in DeltaDeltaUndoCases :
        (origin_data = c[1] /\ Len(chain) = 3 /\ LastIsUndo
            /\ chain[1] = c[2] /\ chain[2] = c[3])
            => /\ ~failed
               /\ pending = <<>> => data = c[4]

\* a chain of three deltas ending in an undo was applied after a merge
DeltaTripleWithUndoApplied ==
    /\ Len(chain) = 3 /\ ValidChain /\ LastIsUndo
    /\ chain[2].after # chain[2].before
    /\ lastMerge.done /\ pending = <<>> /\ ~failed

\* C10: merging (a, b) with a following (c, d) on one key succeeds exactly
\* when b = c, and then yields (a, d); when b # c it returns an error.
MergeValidIffChained ==
    lastMerge.done
        => /\ lastMerge.ok <=> (lastMerge.lhs.after = lastMerge.rhs.before)
           /\ lastMerge.ok =>
                /\ lastMerge.out.before = lastMerge.lhs.before
                /\ lastMerge.out.after = lastMerge.rhs.after

\* a merge of two deltas that do not chain returned an error
MergeRejected ==
    /\ lastMerge.done /\ ~lastMerge.ok /\ failed
    /\ lastMerge.lhs.after # lastMerge.rhs.before

----------------------------------------------------------------------------
(* Properties of the layered UTXO cache *)

\* the layers of a stack that hold an entry, live or Spent, for the outpoint
Holders(layers, outpoint) ==
    {i \in 1..Len(layers) : layers[i][outpoint].st # "absent"}

Nearest(layers, outpoint) ==
    CHOOSE i \in Holders(layers, outpoint) :
        \A j \in Holders(layers, outpoint) : j <= i

\* the nearest layer holding the outpoint holds it live, or no layer holds it
\* and the storage backend does
LiveInView(storage, layers, outpoint) ==
    IF Holders(layers, outpoint) = {}
        THEN storage[outpoint] # None
        ELSE layers[Nearest(layers, outpoint)][outpoint].st \in {"fresh", "dirty"}

ViewOf(storage, layers, outpoint) ==
    IF Holders(layers, outpoint) = {}
        THEN storage[outpoint]
        ELSE layers[Nearest(layers, outpoint)][outpoint].utxo

\* C4, as amended: spend_utxo(outpoint) fails, changing nothing, exactly when
\* the cascading read does not resolve to a live utxo (the nearest layer
\* holding the outpoint holds it Spent, or no layer holds it and storage lacks
\* it); otherwise it marks the entry Spent in the current layer only, returns
\* the prior Utxo, and the outpoint is not live in the view afterwards, so a
\* second spend fails unless the outpoint is added again in between.
SpendFollowsCascadingRead ==
    [][utxo_last'.op = "spend" =>
        LET o == utxo_last'.outpoint IN
        /\ utxo_last'.ok <=> LiveInView(utxo_storage, utxo_layers, o)
        /\ utxo_storage' = utxo_storage
        /\ ~utxo_last'.ok => utxo_layers' = utxo_layers
        /\ utxo_last'.ok =>
            /\ utxo_last'.ret = ViewOf(utxo_storage, utxo_layers, o)
            /\ utxo_layers'[Depth][o] = SpentEntry
            /\ \A i \in 1..Depth, k \in OutPoints :
                (i # Depth \/ k # o) => utxo_layers'[i][k] = utxo_layers[i][k]
            /\ ~LiveInView(utxo_storage', utxo_layers', o)
      ]_vars

\* C4, witness: an outpoint held live by the layer below is spent in the
\* newest layer, which alone is marked
SpentInNewestLayerOnly ==
    /\ utxo_last.op = "spend" /\ utxo_last.ok
    /\ Depth = 2
    /\ utxo_layers[2][utxo_last.outpoint] = SpentEntry
    /\ utxo_layers[1][utxo_last.outpoint].st \in {"fresh", "dirty"}
    /\ utxo_last.ret = utxo_layers[1][utxo_last.outpoint].utxo

\* C4, as claimed: spend_utxo fails whenever the outpoint is Spent in this
\* layer or in any ancestor layer
SpendFailsIfSpentInAnyLayer ==
    [][(/\ utxo_last'.op = "spend"
        /\ \E i \in 1..Depth : utxo_layers[i][utxo_last'.outpoint].st = "spent")
            => ~utxo_last'.ok
      ]_vars

\* the merge table, cell by cell: the pairs that are an error
TableError(p, c) ==
    \/ p \in {"fresh", "dirty"} /\ c = "fresh"
    \/ p = "spent" /\ c = "dirty"

\* the merge table, cell by cell: the state of the parent's entry afterwards
TableState(p, c) ==
    CASE p = "absent" /\ c = "absent" -> "absent"
      [] p = "absent" /\ c = "fresh"  -> "fresh"
      [] p = "absent" /\ c = "dirty"  -> "dirty"
      [] p = "absent" /\ c = "spent"  -> "absent"
      [] p = "fresh"  /\ c = "absent" -> "fresh"
      [] p = "fresh"  /\ c = "dirty"  -> "fresh"
      [] p = "fresh"  /\ c = "spent"  -> "absent"
      [] p = "dirty"  /\ c = "absent" -> "dirty"
      [] p = "dirty"  /\ c = "dirty"  -> "dirty"
      [] p = "dirty"  /\ c = "spent"  -> "spent"
      [] p = "spent"  /\ c = "absent" -> "spent"
      [] p = "spent"  /\ c = "fresh"  -> "dirty"
      [] p = "spent"  /\ c = "spent"  -> "spent"
      [] OTHER                        -> "error"

----------------------------------------------------------------------------
(* Properties of the verifier hierarchy *)

\* route one: C2 is flushed into C1, and C1 into P
FlushChildFirst(P, C1, C2) ==
    LET inner == flush_to_verifier(C1, C2)
        outer == flush_to_verifier(P, inner.to)
    IN [ok |-> inner.err = NoError /\ outer.err = NoError, to |-> outer.to]

\* route two: C1 is flushed into P, and then C2's overlay into P
FlushParentFirst(P, C1, C2) ==
    LET first == flush_to_verifier(P, C1)
        second == flush_to_verifier(first.to, C2)
    IN [ok |-> first.err = NoError /\ second.err = NoError, to |-> second.to]

TxIndexConflicts(P, C) ==
    {k \in TxIndexKeys :
        C.tx_index_cache[k].op = "write" /\ P.tx_index_cache[k].op = "write"}

TokenConflicts(P, C) ==
    {t \in TokenIds : C.token_aux[t].op = "write" /\ P.token_aux[t].op = "write"}

BlockUndoConflicts(P, C) ==
    {b \in BlockIds :
        /\ C.utxo_block_undo[b].st = "entry" /\ C.utxo_block_undo[b].is_fresh
        /\ P.utxo_block_undo[b].st = "entry" /\ P.utxo_block_undo[b].is_fresh}

\* C2: when the consumed overlay of a child conflicts with its parent on a
\* key (fresh undo for a block the parent holds fresh undo for, a tx-index
\* write for an outpoint the parent holds a write for, a token id the parent
\* already registered), the flush returns an error and the parent holds for
\* that key the value it held before; the error is the typed error of the
\* conflict (of the first conflicting sub-cache in flush order when several
\* conflict), and a typed error is returned for such a conflict only.
ConflictKeepsParentKey ==
    ver_last.op = "flush" =>
        LET P == ver_last.parent
            C == ver_last.child
            now == ver_layers[Verifiers]
            tx == TxIndexConflicts(P, C)
            tok == TokenConflicts(P, C)
            un == BlockUndoConflicts(P, C)
        IN
        /\ \A k \in tx :
            /\ ver_last.err.kind = "TxIndexError::OutputAlreadyPresentInInputsCache"
            /\ now.tx_index_cache[k] = P.tx_index_cache[k]
        /\ \A t \in tok :
            /\ ver_last.err # NoError
            /\ tx = {} => ver_last.err = VerifierError(
                "TokensError::InvariantBrokenRegisterIssuanceWithDuplicateId", t)
            /\ now.token_aux[t] = P.token_aux[t]
        /\ \A b \in un :
            /\ ver_last.err # NoError
            /\ (tx = {} /\ tok = {} /\ batch_write(P.utxo_cache, C.utxo_cache).ok
                /\ flush_token_ids_from(P.token_ids, C.token_ids, 1).ok)
                    => ver_last.err = VerifierError("DuplicateBlockUndo", b)
            /\ now.utxo_block_undo[b] = P.utxo_block_undo[b]
        /\ ver_last.err.kind = "DuplicateBlockUndo" =>
            /\ C.utxo_block_undo[ver_last.err.id].is_fresh
            /\ P.utxo_block_undo[ver_last.err.id].st = "entry"
        /\ ver_last.err.kind = "TxIndexError::OutputAlreadyPresentInInputsCache" =>
            \E k \in TxIndexKeys :
                C.tx_index_cache[k].op = "write" /\ P.tx_index_cache[k].op # "none"

\* C2, witness: a child holding fresh undo for the block its parent holds
\* fresh undo for was flushed: DuplicateBlockUndo, the parent's undo kept
DuplicateBlockUndoReturned ==
    /\ ver_last.op = "flush"
    /\ ver_last.err.kind = "DuplicateBlockUndo"
    /\ \E b \in BlockIds :
        /\ ver_last.err.id = b
        /\ ver_last.parent.utxo_block_undo[b].is_fresh
        /\ ver_last.child.utxo_block_undo[b].is_fresh
        /\ ver_last.child.utxo_block_undo[b].undo
            # ver_last.parent.utxo_block_undo[b].undo
        /\ ver_layers[Verifiers].utxo_block_undo[b]
            = ver_last.parent.utxo_block_undo[b]

----------------------------------------------------------------------------
(* Properties of the utxo db *)

\* C3: for any block connected on a utxo set S with its undo recorded at
\* connect time, disconnecting the block with that undo (every utxo it spent
\* added back, every utxo it created removed) and flushing succeeds and
\* leaves a utxo set equal to S entry for entry.
DisconnectRestoresUtxoSet ==
    blk_last.op = "disconnect" =>
        /\ blk_last.ok
        /\ \A o \in OutPoints : blk_storage[o] = blk_last.secured[o]

\* C3, witness: the block disconnected had spent a utxo of S and created an
\* output in its first transaction that its second transaction spent, and it
\* had changed the utxo set
ChainedBlockDisconnected ==
    /\ blk_last.op = "disconnect" /\ blk_last.ok
    /\ Len(blk_last.block) = 2
    /\ \E o1, o2 \in OutPoints :
        /\ o1 # o2
        /\ blk_last.secured[o1] # None /\ blk_last.secured[o2] = None
        /\ blk_last.block[1].inputs = <<o1>>
        /\ blk_last.block[1].outputs[o2] # None
        /\ blk_last.block[2].inputs = <<o2>>
        /\ blk_last.block[2].outputs[o1] # None
    /\ blk_storage = blk_last.secured

----------------------------------------------------------------------------
(* Properties of the mempool's verification *)

\* a step taken while verify_transaction runs
VerificationStepIsLocal ==
    adm_pc \in {"attempt", "connected"} =>
        /\ adm_verifier' = adm_verifier
        /\ (adm_tip' = adm_tip) => (adm_storage' = adm_storage)
        /\ (adm_result' \in {"ConnectFailed", "TipMoved"}) =>
                (adm_pc' = "idle" /\ adm_job'.child = EmptyCache)

\* C6: while verify_transaction runs, and when it fails (connect_transaction
\* returning an error in the derived child, or the tip having moved at every
\* attempt), the mempool's verifier is left as it was, the storage changes
\* only by the chainstate moving its tip, and the child's overlay is
\* discarded.
FailureIsLocalToChild ==
    [][VerificationStepIsLocal]_vars

\* C6, witness: a transaction whose first input is live in the view of the
\* mempool's verifier, which holds entries of an earlier admission, and whose
\* second input is not, has failed to connect; the first input is still live
ConnectFailedAfterSpending ==
    /\ adm_pc = "idle"
    /\ adm_result = "ConnectFailed"
    /\ adm_verifier # EmptyCache
    /\ Len(adm_job.tx.inputs) = 2
    /\ lookup_utxo(adm_storage, <<adm_verifier>>, 1, adm_job.tx.inputs[1]) # None
    /\ lookup_utxo(adm_storage, <<adm_verifier>>, 1, adm_job.tx.inputs[2]) = None

----------------------------------------------------------------------------
(* Properties of the mempool *)

\* no two entries of the store spend the same outpoint
NoDoubleSpendInPool ==
    \A a, b \in DOMAIN pool_mempool.store :
        a # b => inputs_of(a) \cap inputs_of(b) = {}

\* the last call submitted a candidate, not in the store, that spends an
\* outpoint an entry of the store spends
ConflictingCandidateSubmitted ==
    /\ pool_last.op = "add"
    /\ ~contains_key(pool_last.before.store, pool_last.tx)
    /\ conflicting_tx_ids(pool_last.before.store, pool_last.tx) # {}

in_pool_parents(store, e) == {source_tx(o) : o \in inputs_of(e)} \cap DOMAIN store

\* the entries reached from ids by in_pool_parents, ids included
RECURSIVE parents_closure(_, _)
parents_closure(store, ids) ==
    LET more == ids \cup UNION {in_pool_parents(store, e) : e \in ids} IN
    IF more = ids THEN ids ELSE parents_closure(store, more)

\* C12: for all entries E and D of the store, E is in ancestors(D) iff D is
\* in descendants(E), parents(E) is a subset of ancestors(E), and
\* ancestors(E) is the transitive closure of the in-pool parents of E.
StoreIndicesConsistent ==
    LET store == pool_mempool.store IN
    \A e \in DOMAIN store :
        /\ \A d \in DOMAIN store :
                e \in store[d].ancestors <=> d \in store[e].descendants
        /\ store[e].parents \subseteq store[e].ancestors
        /\ store[e].ancestors = parents_closure(store, {e}) \ {e}

\* the last call was an add_transaction that reached finalize_tx's expiry
AdmissionFinalized ==
    /\ pool_last.op = "add"
    /\ pool_last.err \in {"", "DescendantOfExpiredTransaction", "MempoolFull"}

\* the entries that were older than max_tx_age when the last call was made
AgedOut ==
    {x \in DOMAIN pool_last.before.store :
        pool_clock - pool_last.before.store[x].creation_time > DEFAULT_MEMPOOL_EXPIRY}

\* C13: after an admission the store holds no entry older than max_tx_age
\* and no descendant of an entry that was older than max_tx_age.
NoExpiredEntryAfterAdmission ==
    AdmissionFinalized =>
        LET submitted == [x \in DOMAIN pool_last.before.store \cup {pool_last.tx} |-> 0]
        IN  \A e \in DOMAIN pool_mempool.store :
                /\ pool_clock - pool_mempool.store[e].creation_time
                        <= DEFAULT_MEMPOOL_EXPIRY
                /\ parents_closure(submitted, {e}) \cap AgedOut = {}

\* C13, witness: an admission has succeeded that removed an expired entry
\* together with a descendant of it that was not older than max_tx_age
YoungDescendantExpired ==
    /\ pool_last.op = "add"
    /\ pool_last.err = ""
    /\ AgedOut # {}
    /\ pool_last.expired \ AgedOut # {}

\* C14: after an admission that completes, with Ok or with MempoolFull, the
\* memory usage of the store is at most max_size, or the store is empty.
SizeWithinLimitAfterAdmission ==
    (pool_last.op = "add" /\ pool_last.err \in {"", "MempoolFull"}) =>
        \/ get_memory_usage(pool_mempool.store) <= MAX_MEMPOOL_SIZE_BYTES
        \/ DOMAIN pool_mempool.store = {}

\* C14, witness: an admission has succeeded after evicting entries of a
\* store that the candidate had filled beyond max_size
AdmittedAfterEviction ==
    /\ pool_last.op = "add"
    /\ pool_last.err = ""
    /\ pool_last.picked # <<>>
    /\ get_memory_usage(pool_last.before.store) + tx_size(pool_last.tx)
            > MAX_MEMPOOL_SIZE_BYTES

\* the store the last admission trimmed: the store before the call with
\* the candidate, less what expired
StoreBeforeTrim ==
    [x \in (DOMAIN pool_last.before.store \cup {pool_last.tx}) \ pool_last.expired |->
        [fee |-> tx_fee(x), size |-> tx_size(x)]]

\* the entries of ids that spend, directly or through other entries of ids,
\* an output of x
spenders_within(ids, x) ==
    LET within == [y \in ids |-> 0] IN
    {d \in ids \ {x} : x \in parents_closure(within, {d})}

\* what is left of StoreBeforeTrim after the first n picks of the last trim
RECURSIVE left_after(_)
left_after(n) ==
    IF n = 0 THEN DOMAIN StoreBeforeTrim
    ELSE LET ids == left_after(n - 1) IN
         ids \ ({pool_last.picked[n]} \cup spenders_within(ids, pool_last.picked[n]))

\* within ids, the descendant score of a is not above that of b
score_not_above(ids, a, b) ==
    LET da == {a} \cup spenders_within(ids, a)
        db == {b} \cup spenders_within(ids, b)
    IN  sum_fees(StoreBeforeTrim, da) * sum_sizes(StoreBeforeTrim, db)
            <= sum_fees(StoreBeforeTrim, db) * sum_sizes(StoreBeforeTrim, da)

SuccessOnlyIfStillInPool ==
    AdmissionFinalized =>
        LET in_pool == pool_last.tx \in DOMAIN pool_mempool.store
            expired == pool_last.tx \in pool_last.expired
        IN  /\ pool_last.err = "" <=> in_pool
            /\ pool_last.err = "DescendantOfExpiredTransaction" <=> expired
            /\ pool_last.err = "MempoolFull" <=> (~expired /\ ~in_pool)

\* C16, witness: the size limit evicted the submitted transaction and left
\* others in the store
CandidateEvictedBySizeLimit ==
    /\ pool_last.op = "add"
    /\ pool_last.err = "MempoolFull"
    /\ pool_last.tx \notin DOMAIN pool_mempool.store
    /\ DOMAIN pool_mempool.store # {}

\* a step of verify_transaction that ends a turn of its loop
TurnEnds == adm_pc = "connected" /\ adm_pc' # "connected"

\* the turns of verify_transaction are counted and end as the tip tells
VerificationTurnIsBounded ==
    /\ adm_job.attempts < MAX_TX_ADDITION_ATTEMPTS
    /\ TurnEnds =>
        /\ adm_result' = "Ok" <=> adm_job.tip = adm_tip
        /\ adm_result' = "TipMoved" <=>
                /\ adm_job.tip # adm_tip
                /\ adm_job.attempts + 1 = MAX_TX_ADDITION_ATTEMPTS
        /\ adm_pc' = "attempt" <=>
                /\ adm_job.tip # adm_tip
                /\ adm_job.attempts + 1 < MAX_TX_ADDITION_ATTEMPTS
                /\ adm_job'.attempts = adm_job.attempts + 1

\* C17: verify_transaction makes at most MAX_TX_ADDITION_ATTEMPTS attempts;
\* it returns a fee and a delta only from an attempt whose tip read before
\* connect_transaction equals the tip read after it, and it fails with
\* TipMoved when the tip changed during every one of the attempts.
VerificationRetriesWhileTipMoves == [][VerificationTurnIsBounded]_vars

\* C17, witness: the tip moved during every attempt of a verification
TipMovedReturned == adm_pc = "idle" /\ adm_result = "TipMoved"

\* C18: the NewTip event of a tip is processed by the mempool before an
\* admission verified against that tip completes: no admission succeeds
\* while the mempool's best block is older than the chainstate's tip.
NewTipObservedBeforeAdmission ==
    (pool_last.op = "add" /\ pool_last.err = "") =>
        pool_mempool.best_block = pool_chain.tip

\* the fee rate of a candidate, as trim computes it for a picked entry
rate_of(t) == tx_fee(t) \div tx_size(t)

\* the highest fee rate among the candidates ids
highest_rate(ids) ==
    CHOOSE r \in {rate_of(t) : t \in ids} : \A t \in ids : rate_of(t) <= r

\* the last call was an admission whose size limit evicted entries
EvictionHappened == pool_last.op = "add" /\ pool_last.picked # <<>>

\* the entries the size limit of the last admission removed
Evicted == DOMAIN StoreBeforeTrim \ DOMAIN pool_mempool.store

\* the entries the trim of the last admission picked
Picked == {pool_last.picked[n] : n \in 1..Len(pool_last.picked)}

RateAfter == pool_mempool.rolling_fee_rate.rolling_minimum_fee_rate

\* C19 as stated: when an admission evicts at least one entry, the rolling
\* minimum fee rate afterwards equals the highest fee rate among the evicted
\* entries plus INCREMENTAL_RELAY_FEE_RATE.
RateIsHighestEvictedPlusIncrement ==
    EvictionHappened =>
        RateAfter = highest_rate(Evicted) + INCREMENTAL_RELAY_FEE_RATE

\* C19: when an admission evicts at least one entry, the rolling minimum
\* fee rate afterwards is the greater of the rate before the eviction and
\* the highest fee rate among the entries trim picked (the descendants
\* removed with them are not counted) plus INCREMENTAL_RELAY_FEE_RATE.
RateIsHighestPickedPlusIncrementOrKept ==
    EvictionHappened =>
        LET raised == highest_rate(Picked) + INCREMENTAL_RELAY_FEE_RATE IN
        RateAfter = IF raised > pool_last.rate_before
                        THEN raised ELSE pool_last.rate_before

\* C19, witness: an eviction raised a rate that was not zero
EvictionRaisedRate ==
    /\ EvictionHappened
    /\ pool_last.rate_before > 0
    /\ RateAfter = highest_rate(Picked) + INCREMENTAL_RELAY_FEE_RATE
    /\ RateAfter > pool_last.rate_before

\* C20 as stated: whenever the size limit evicts, the rolling minimum fee
\* rate after the eviction is at least INCREMENTAL_RELAY_FEE_RATE above
\* the rate before it.
RateRaisedByIncrement ==
    EvictionHappened =>
        RateAfter >= pool_last.rate_before + INCREMENTAL_RELAY_FEE_RATE

\* C20: whenever the size limit evicts, the rolling minimum fee rate after
\* the eviction is not below the rate before it, and it is at least
\* INCREMENTAL_RELAY_FEE_RATE above the rate before when the fee rate of a
\* picked entry is not below the rate before.
RateRaisedByIncrementOverPicked ==
    EvictionHappened =>
        /\ RateAfter >= pool_last.rate_before
        /\ (highest_rate(Picked) >= pool_last.rate_before) =>
                (RateAfter >= pool_last.rate_before + INCREMENTAL_RELAY_FEE_RATE)

\* C20, witness: an entry paying at least the rate in force was evicted
\* while the rate in force was not zero
EvictionOfEntryAtRate ==
    /\ EvictionHappened
    /\ pool_last.rate_before > 0
    /\ highest_rate(Picked) >= pool_last.rate_before

\* this step is an add_transaction that asks for the minimum mempool fee
\* (pays_minimum_mempool_fee is reached)
MinFeeQueried ==
    /\ pool_last'.op = "add"
    /\ pool_last'.before = pool_mempool
    /\ pool_chain' = pool_chain
    /\ pool_clock' = pool_clock
    /\ pool_last'.err \notin {"NoInputs", "TransactionAlreadyInMempool",
                              "TxValidationError", "InsufficientFeesToRelay"}

\* the rolling minimum fee rate halved for every halflife gone since its last
\* update, and zero when that is below INCREMENTAL_RELAY_THRESHOLD
DecayedRate ==
    LET rolling == pool_mempool.rolling_fee_rate
        decayed == halved(rolling.rolling_minimum_fee_rate,
                          (pool_clock - rolling.last_rolling_fee_update)
                              \div rolling_fee_halflife(pool_mempool))
    IN  IF decayed < INCREMENTAL_RELAY_THRESHOLD THEN 0 ELSE decayed

DecayIsDue ==
    /\ pool_mempool.rolling_fee_rate.rolling_minimum_fee_rate > 0
    /\ pool_clock > pool_mempool.rolling_fee_rate.last_rolling_fee_update
                        + ROLLING_FEE_DECAY_INTERVAL

\* every query of the minimum fee made when time has passed finds the
\* rate decayed
QueryDecaysRate ==
    (MinFeeQueried /\ DecayIsDue) => pool_last'.rate_before = DecayedRate

\* C21 as stated: the rolling minimum fee rate decays as time passes and is
\* set to zero once the decayed value is below INCREMENTAL_RELAY_THRESHOLD.
RateDecaysAsTimePasses == [][QueryDecaysRate]_vars

\* a query finds the rate decayed if a block was connected since the rate
\* was last raised, and as it was if not
QueryDecaysRateAfterBlock ==
    MinFeeQueried =>
        pool_last'.rate_before =
            IF /\ DecayIsDue
               /\ pool_mempool.rolling_fee_rate.block_since_last_rolling_fee_bump
                THEN DecayedRate
                ELSE pool_mempool.rolling_fee_rate.rolling_minimum_fee_rate

\* C21: once a block has been connected since the rolling minimum fee rate
\* was last raised, a query of the minimum fee made at a later time halves
\* the rate for every halflife gone and sets it to zero when the decayed
\* value is below INCREMENTAL_RELAY_THRESHOLD; until such a block the rate
\* stays as it is.
RateDecaysAfterBlock == [][QueryDecaysRateAfterBlock]_vars

\* C21, witness: a query has found a rate that was not zero decayed to zero
RateDroppedToZero ==
    /\ pool_last.op = "add"
    /\ pool_last.err \notin {"NoInputs", "TransactionAlreadyInMempool",
                             "TxValidationError", "InsufficientFeesToRelay"}
    /\ pool_last.before.rolling_fee_rate.rolling_minimum_fee_rate > 0
    /\ pool_last.before.rolling_fee_rate.block_since_last_rolling_fee_bump
    /\ pool_last.rate_before = 0

\* C22: collect_txs hands the transactions to the accumulator in an order
\* in which every transaction is preceded by all of its in-pool ancestors.
CollectedAfterAncestors ==
    pool_last.op = "collect" =>
        \A i \in 1..Len(pool_last.collected) :
            \A a \in parents_closure(pool_mempool.store, {pool_last.collected[i]})
                        \ {pool_last.collected[i]} :
                \E j \in 1..(i - 1) : pool_last.collected[j] = a

\* the transactions of the blocks disconnected between the tip the mempool
\* knew and the tip it has just been told of
DisconnectedSinceKnownTip ==
    LET txs == disconnected_txs(
                    best_chain(pool_chain, pool_last.before.best_block),
                    best_chain(pool_chain, pool_chain.tip), 1)
    IN  {txs[i] : i \in DOMAIN txs}

\* the transactions of the blocks of the best chain
OnBestChain ==
    LET txs == best_chain(pool_chain, pool_chain.tip) IN {txs[i] : i \in DOMAIN txs}

\* the transaction t can be connected on top of the chainstate's tip
ValidAtTip(t) ==
    /\ t \notin OnBestChain
    /\ \A o \in inputs_of(t) : pool_chain.utxos[o] # None

NoneOnChainInPool ==
    pool_last.op = "new_tip" => DOMAIN pool_mempool.store \cap OnBestChain = {}

DisconnectedReentered ==
    pool_last.op = "new_tip" =>
        \A t \in DisconnectedSinceKnownTip :
            ValidAtTip(t) => t \in DOMAIN pool_mempool.store

\* C23: after the mempool has processed a NewTip event no transaction of
\* the new best chain is in the pool, and every transaction of a
\* disconnected block that is still valid against the new tip is in the pool.
PoolFollowsNewTip == NoneOnChainInPool /\ DisconnectedReentered

\* the undo data of block b as the newest verifier sees it: the entry of
\* the newest verifier that holds one (undo written by a block that
\* connected, or the mark left by a block that disconnected), else the
\* store's
RECURSIVE undo_view(_, _, _, _)
undo_view(store, layers, n, b) ==
    IF n = 0 THEN store.undo[b]
    ELSE IF layers[n].utxo_block_undo[b].st = "none"
        THEN undo_view(store, layers, n - 1, b)
    ELSE IF layers[n].utxo_block_undo[b].is_fresh
        THEN Some(layers[n].utxo_block_undo[b].undo)
    ELSE None

\* a step in which the newest verifier is flushed without an error
FlushedWithoutError ==
    /\ Verifiers >= 1
    /\ Len(ver_layers') = Verifiers - 1
    /\ ver_last'.err = NoError

\* a flush hands the undo data of every block down as it was seen: to the
\* parent verifier, or to the store, where it is written for a block that
\* connected and deleted for one that disconnected
FlushKeepsUndoView ==
    FlushedWithoutError =>
        \A b \in BlockIds :
            undo_view(ver_store', ver_layers', Verifiers - 1, b)
                = undo_view(ver_store, ver_layers, Verifiers, b)

ReachedTransactions ==
    /\ chs_last.op = "process_block"
    /\ check_consensus(chs_last.block, chs_last.best.timestamp) = BlockOk
    /\ connect_block_reward(chs_last.block.consensus) = BlockOk

AttemptHeight == chs_last.best.height + 1

\* the block spends the unspent locked output of an earlier block
SpendsEarlierOutput ==
    /\ ReachedTransactions
    /\ chs_last.block.txs = <<SpendLocked>>
    /\ chs_last.locked.st = "unspent"

\* the block creates a locked output and spends it
SpendsOwnOutput ==
    /\ ReachedTransactions
    /\ Len(chs_last.block.txs) = 2

\* the output the block tries to spend
AttemptedOutput ==
    IF SpendsOwnOutput
        THEN [st |-> "unspent", created |-> AttemptHeight,
              lock |-> chs_last.block.txs[1].lock]
        ELSE chs_last.locked

\* the height the lock declares: h of UntilHeight(h), c + n of
\* ForBlockCount(n) created at height c
UnlockHeight(output) ==
    IF output.lock.kind = "UntilHeight" THEN output.lock.value
                                        ELSE output.created + output.lock.value

BlockRejected(err) ==
    /\ chs_last.err = err
    /\ chs_best = chs_last.best
    /\ chs_locked = chs_last.locked

BlockAccepted ==
    /\ chs_last.err = BlockOk
    /\ chs_best.height = AttemptHeight

\* the attempt fails below the unlock height and succeeds from it on
SpendFollowsUnlockHeight ==
    IF AttemptHeight < UnlockHeight(AttemptedOutput)
        THEN BlockRejected(TimeLockViolation)
        ELSE BlockAccepted /\ chs_locked.st = "spent"

RefusedBelowUnlockHeight ==
    /\ SpendsEarlierOutput
    /\ chs_last.locked.lock = UntilHeight(3)
    /\ AttemptHeight = 2
    /\ BlockRejected(TimeLockViolation)

PoSBlockProcessed ==
    /\ chs_last.op = "process_block"
    /\ chs_last.block.consensus.kind = "PoS"

\* C28: a PoS block whose timestamp is not greater than its parent's is
\* rejected with PoSBlockTimeStrictOrderInvalid, whatever its kernel, and
\* every accepted PoS block has a timestamp greater than its parent's.
PoSTimestampsStrictlyIncrease ==
    PoSBlockProcessed =>
        /\ (chs_last.block.timestamp <= chs_last.best.timestamp)
              => BlockRejected(PoSBlockTimeStrictOrderInvalid)
        /\ (chs_last.err = BlockOk)
              => chs_best.timestamp > chs_last.best.timestamp

\* C28, witness: a PoS block carrying its parent's timestamp, over a parent
\* that is not the genesis, has been rejected
EqualTimestampRejected ==
    /\ PoSBlockProcessed
    /\ chs_last.best.height > 0
    /\ chs_last.block.timestamp = chs_last.best.timestamp
    /\ BlockRejected(PoSBlockTimeStrictOrderInvalid)

\* C29: a PoS block whose kernel input references pool P1 while its reward
\* declares ProduceBlockFromStake for another pool P2 is never accepted,
\* the best block is unchanged, and when the block passes the consensus
\* check the error is StakePoolIdMismatch(P1, P2).
MismatchedPoolsRejected ==
    (/\ PoSBlockProcessed
     /\ chs_last.block.consensus.kernel_pool
            # chs_last.block.consensus.reward_pool)
        => /\ chs_last.err # BlockOk
           /\ chs_best = chs_last.best
           /\ (check_consensus(chs_last.block, chs_last.best.timestamp)
                  = BlockOk)
                 => BlockRejected(
                        StakePoolIdMismatch(
                            chs_last.block.consensus.kernel_pool,
                            chs_last.block.consensus.reward_pool))

\* C29, witness: a block with a valid kernel of pool 1 and a reward naming
\* pool 2 has been rejected with StakePoolIdMismatch(1, 2)
KernelAndRewardPoolsDiffer ==
    /\ PoSBlockProcessed
    /\ chs_last.block.consensus = PoSConsensus(1, 2, TRUE)
    /\ BlockRejected(StakePoolIdMismatch(1, 2))

\* the last call applied the replacement rules to a candidate with
\* conflicts, and the candidate passed them
ReplacementAccepted ==
    /\ pool_last.op = "rbf_checks"
    /\ pool_last.err = ""
    /\ conflicting_tx_ids(pool_last.before.store, pool_last.tx) # {}

\* the entries a replacement removes: its direct conflicts and every entry
\* spending, directly or through other entries, an output of one of them
RemovedByReplacement ==
    LET store == pool_last.before.store
        direct == conflicting_tx_ids(store, pool_last.tx)
    IN  direct \cup UNION {spenders_within(DOMAIN store, c) : c \in direct}

\* C30: a replacement that passes the replacement rules pays a fee
\* strictly greater than the sum of the fees of the entries it removes, its
\* direct conflicts and all their descendants, and those are the conflicts
\* the rules return.
ReplacementPaysMoreThanRemoved ==
    ReplacementAccepted =>
        /\ pool_last.conflicts = RemovedByReplacement
        /\ tx_fee(pool_last.tx)
              > sum_fees(pool_last.before.store, RemovedByReplacement)

\* C30, witness: candidate 6, paying 8, has passed the rules against a
\* store holding its conflict 3, which pays 2
ReplacementOfCheaperEntry ==
    /\ ReplacementAccepted
    /\ pool_last.tx = 6
    /\ pool_last.conflicts = {3}

\* the last call applied the replacement rules to a candidate with
\* conflicts, and the rules that come before rule 5 passed
ReachedReplacementLimit ==
    /\ pool_last.op = "rbf_checks"
    /\ conflicting_tx_ids(pool_last.before.store, pool_last.tx) # {}
    /\ pool_last.err \notin {"ConflictWithIrreplaceableTransaction",
                             "ReplacementFeeLowerThanOriginal",
                             "SpendsNewUnconfirmedOutput"}

\* C37: a replacement is rejected with TooManyPotentialReplacements exactly
\* when the set of entries to remove, its direct conflicts and their
\* descendants, each counted once, has more than
\* MAX_BIP125_REPLACEMENT_CANDIDATES members.
TooManyExactlyAboveLimit ==
    ReachedReplacementLimit =>
        ((pool_last.err = "TooManyPotentialReplacements")
            <=> (Cardinality(RemovedByReplacement)
                    > MAX_BIP125_REPLACEMENT_CANDIDATES))

\* a step in which the flush of the newest verifier into its parent
\* verifier returns an error
FlushIntoVerifierFailed ==
    /\ Verifiers >= 2
    /\ Len(ver_layers') = Verifiers - 1
    /\ ver_last'.err # NoError

FailedFlushKeepsParent ==
    FlushIntoVerifierFailed =>
        ver_layers'[Verifiers - 1] = ver_layers[Verifiers - 1]

\* C34: a flush that returns an error is all-or-nothing: after a failed
\* flush of a child into a parent verifier every sub-cache of the parent is
\* as it was before the flush, so that a later flush of the parent writes
\* nothing that originated in the child.
FailedFlushIsAllOrNothing == [][FailedFlushKeepsParent]_vars

\* the mempool's verifier regards a confirmed outpoint as spent
SpentInPoolVerifier(o) ==
    /\ pool_chain.utxos[o] # None
    /\ lookup_utxo(pool_chain.utxos, <<pool_mempool.tx_verifier>>, 1, o) = None

\* C35: between tip changes the mempool's verifier reflects the entries of
\* the store: a confirmed outpoint is regarded as spent by the verifier if
\* and only if an entry of the store spends it.
VerifierReflectsStore ==
    (pool_mempool.best_block = pool_chain.tip) =>
        \A o \in 1..NumConfirmed :
            (pool_chain.utxos[o] # None) =>
                (SpentInPoolVerifier(o)
                    <=> \E t \in DOMAIN pool_mempool.store : o \in inputs_of(t))

\* C36: when add_transaction(T) returns an error, T is not in the store
\* unless it was there before the call, and the mempool's verifier holds
\* for the inputs and the output of T what it held before the call.
FailedAdmissionLeavesNoEffect ==
    (pool_last.op = "add" /\ pool_last.err # "") =>
        /\ contains_key(pool_mempool.store, pool_last.tx)
              => contains_key(pool_last.before.store, pool_last.tx)
        /\ \A o \in inputs_of(pool_last.tx) \cup {output_of(pool_last.tx)} :
              pool_mempool.tx_verifier[o] = pool_last.before.tx_verifier[o]

----------------------------------------------------------------------------
(* The tracker's counter against the objects it tracks *)

RECURSIVE accounted_usage(_, _)
\* what the tracker has been told of the objects 1 .. n: the usage of an
\* object at its last accounting, which is the borrow for a borrowed one
accounted_usage(objects, n) ==
    IF n = 0 THEN 0
    ELSE accounted_usage(objects, n - 1)
         + (IF objects[n].st = "borrowed" THEN objects[n].orig_usage
            ELSE objects[n].usage)

RECURSIVE tracked_usage(_, _)
\* the sum of indirect_memory_usage over the tracked objects among 1 .. n
tracked_usage(objects, n) ==
    IF n = 0 THEN 0
    ELSE tracked_usage(objects, n - 1) + indirect_memory_usage(objects[n])

NoGuardAlive == \A i \in 1..NumTracked : trk_objects[i].st # "borrowed"

\* C40: after any sequence of Tracked::new, get_mut with the Guard dropped
\* and Tracked::release, get_usage is the sum of indirect_memory_usage of the
\* objects tracked (with a Guard alive: of what was accounted last), and no
\* subtraction takes more than the counter holds
UsageIsSumOfTrackedObjects ==
    /\ trk_usage = accounted_usage(trk_objects, NumTracked)
    /\ NoGuardAlive => trk_usage = tracked_usage(trk_objects, NumTracked)
    /\ trk_last.subtracted <= trk_last.before

\* a Guard that saw its object shrink was dropped while another object is
\* tracked
ShrunkUnderGuard ==
    /\ trk_last.op = "guard_drop"
    /\ trk_last.subtracted > 0
    /\ NoGuardAlive
    /\ \E i \in 1..NumTracked :
            i # trk_last.obj /\ trk_objects[i].st = "tracked"
                /\ trk_objects[i].usage > 0

----------------------------------------------------------------------------
(* The wallet's root keys behind the lock *)

UnlockedTransactionOps ==
    {"get_root_key", "set_root_key", "encrypt_private_keys"}

\* a call that opens an unlocked transaction on the locked store fails with
\* WalletLocked, reads nothing and writes nothing
LockedStoreRefuses ==
    (wlt_state = Locked /\ wlt_last'.op \in UnlockedTransactionOps) =>
        /\ wlt_last'.err = "WalletLocked"
        /\ wlt_last'.value = None
        /\ wlt_db' = wlt_db
        /\ wlt_state' = Locked

\* C31: while the store is Locked, opening an unlocked read-only or
\* read-write transaction fails with WalletLocked: no root key is read or
\* written until an unlock succeeds
LockedStoreHidesRootKeys == [][LockedStoreRefuses]_vars

\* a write of a root key was refused on a locked store that holds root keys
WriteRefusedWhileLocked ==
    /\ wlt_last.op = "set_root_key"
    /\ wlt_last.state = Locked
    /\ wlt_last.err = "WalletLocked"
    /\ wlt_state = Locked
    /\ \E id \in RootKeyIds : wlt_db.root_keys[id] # None

\* the key the password derives is not the key of some stored root key
FailsToDecryptSomeRootKey(password) ==
    \E id \in RootKeyIds :
        /\ wlt_db.root_keys[id] # None
        /\ wlt_db.root_keys[id][1].key #
               Some(password_to_sym_key(password, wlt_db.kdf_challenge[1]))

\* an unlock with such a password returns WalletInvalidPassword and leaves
\* the store locked and its contents alone
WrongPasswordRefused ==
    (/\ wlt_state = Locked
     /\ wlt_last'.op = "unlock_private_keys"
     /\ FailsToDecryptSomeRootKey(wlt_last'.password[1])) =>
        /\ wlt_last'.err = "WalletInvalidPassword"
        /\ wlt_state' = Locked
        /\ wlt_db' = wlt_db

\* the outcome of unlock_private_keys(password) on the store as it is
UnlockWith(password) == unlock_private_keys(wlt_db, wlt_state, password)

\* on a locked store, whatever unlocks failed before, some password
\* unlocks, and under a password that unlocks every root key reads as it
\* was written
CorrectPasswordUnlocks ==
    wlt_state = Locked =>
        /\ \E password \in Passwords : UnlockWith(password).err = ""
        /\ \A password \in Passwords :
               UnlockWith(password).err = "" =>
                   \A id \in RootKeyIds :
                       get_root_key(wlt_db, UnlockWith(password).state.key, id)
                           = [err |-> "", value |-> wlt_user.contents[id]]

\* C32: unlock_private_keys with a password whose key fails to decrypt some
\* root key returns WalletInvalidPassword and leaves the store Locked; an
\* unlock with the correct password still succeeds and shows the root keys
\* as they were stored
WrongPasswordLeavesStoreLocked ==
    [][WrongPasswordRefused]_vars /\ []CorrectPasswordUnlocks

\* an unlock with the wrong password was refused on a store with a root key
WrongPasswordTried ==
    /\ wlt_last.op = "unlock_private_keys"
    /\ wlt_last.err = "WalletInvalidPassword"
    /\ \E password \in Passwords :
            Some(password) # wlt_last.password /\ UnlockWith(password).err = ""
    /\ wlt_state = Locked
    /\ \E id \in RootKeyIds : wlt_db.root_keys[id] # None

----------------------------------------------------------------------------
(* Transaction announcements and peer registration *)

\* the step is the task on the channel handling the announcement of tx
HandlesAnnouncement(channel, tx) ==
    /\ sync_tasks[channel].inbox # <<>>
    /\ Head(sync_tasks[channel].inbox) = tx
    /\ sync_tasks'[channel].inbox = Tail(sync_tasks[channel].inbox)
    /\ sync_last'.op = "announcement"
    /\ sync_last'.channel = channel

DuplicateScored(peer) ==
    sync_scores' = [sync_scores EXCEPT
                        ![peer] = Append(@, "DuplicatedTransactionAnnouncement")]

FirstAnnouncementRequested ==
    \A channel \in 1..MaxChannels, tx \in AnnouncedTxs :
        HandlesAnnouncement(channel, tx) =>
            LET peer == sync_tasks[channel].peer
            IN  IF tx \notin sync_tasks[channel].heard
                    THEN sync_sent'[<<peer, tx>>] = sync_sent[<<peer, tx>>] + 1
                    ELSE /\ sync_sent' = sync_sent
                         /\ DuplicateScored(peer)

AnnouncementAfterDownload ==
    \A channel \in 1..MaxChannels, tx \in AnnouncedTxs :
        (HandlesAnnouncement(channel, tx) /\ ~sync_ibd) =>
            LET peer == sync_tasks[channel].peer
            IN  IF sync_sent[<<peer, tx>>] = 0
                    THEN /\ sync_sent' = [sync_sent EXCEPT ![<<peer, tx>>] = 1]
                         /\ sync_scores' = sync_scores
                    ELSE /\ sync_sent' = sync_sent
                         /\ DuplicateScored(peer)

AnnouncementDuringDownload ==
    \A channel \in 1..MaxChannels, tx \in AnnouncedTxs :
        (HandlesAnnouncement(channel, tx) /\ sync_ibd) =>
            /\ sync_sent' = sync_sent
            /\ sync_scores' = sync_scores
            /\ sync_last'.err = ""
            /\ sync_running' = sync_running

\* C38: during the initial block download a NewTransaction announcement is
\* ignored: no TransactionRequest is sent, no peer score is adjusted and no
\* error is raised
AnnouncementIgnoredDuringDownload == [][AnnouncementDuringDownload]_vars

\* an announcement was handled during the initial block download
AnnouncedDuringDownload ==
    /\ sync_last.op = "announcement"
    /\ sync_last.ibd
    /\ sync_ibd
    /\ sync_last.tx \in sync_tasks[sync_last.channel].heard
    /\ sync_sent[<<sync_last.peer, sync_last.tx>>] = 0

\* C39: a register_peer for a peer id already registered returns
\* PeerAlreadyExists and leaves the registration as it was: the map holds
\* the original channel and the original task still receives on it
DuplicateRegistrationKeepsOriginal ==
    (sync_last.op = "register_peer" /\ sync_last.err = "PeerAlreadyExists") =>
        /\ sync_peers[sync_last.peer] = sync_last.channel
        /\ sync_tasks[sync_last.channel].open

=============================================================================
